---- MODULE Spec2Model ----
(***************************************************************************)
(* The analysis pipeline (processAudioPipeline and its four stage          *)
(* functions) and the analysis context's reducer, as a state machine.      *)
(*                                                                         *)
(* Conventions.  A JavaScript object that is shared by reference (the      *)
(* settings object) lives in `heap` and is named by a reference.  A        *)
(* template literal is the sequence of its fragments.  Math.random() is a  *)
(* draw r in thousandths (0..999 stands for [0,1)); a real-valued quantity *)
(* computed from a draw is kept in millionths, and a progress percentage   *)
(* is an exact fraction [num, den] in lowest terms.                        *)
(***************************************************************************)
EXTENDS Integers, Sequences, FiniteSets, TLC

VARIABLES
    state,                \* the reducer's state (AnalysisContext)
    heap,                 \* settings objects, by reference
    pc,                   \* where processAudioPipeline is suspended
    audioFiles,           \* processAudioPipeline: parameter
    settings,             \* processAudioPipeline: parameter (a reference)
    i,                    \* processAudioPipeline: loop index
    results,              \* processAudioPipeline: const results = []
    transcriptionResult,  \* processAudioPipeline: local of the iteration
    featuresResult,       \* processAudioPipeline: local of the iteration
    pending,              \* the value of the promise being awaited
    outcome,              \* what processAudioPipeline returned
    inflight,             \* stage calls begun and not yet awaited to the end
    env,                  \* the inputs the environment of the run may supply
    applied,              \* the utility functions called directly: each call with its result
    runs,                 \* the simulated runs begun: the locals and the timer of each
    ui,                   \* the useState values of the settings panel and of the uploader
    staleRead,            \* history: the run read its settings after the context's had changed
    trace                 \* history: progress events, stage calls and their results, in order

vars == <<env, ui, applied, runs, state, heap, pc, audioFiles, settings, i, results, transcriptionResult,
          featuresResult, pending, outcome, inflight, staleRead, trace>>

pipelineVars == <<pc, audioFiles, settings, i, results, transcriptionResult,
                  featuresResult, pending, outcome, inflight, staleRead, trace>>

---------------------------------------------------------------------------
(* Bounds and input sets *)

MaxFiles == 2

FileNames == {"a.wav", "b.wav"}

AudioFile(n) == [name |-> n]

AudioBatches(names) == UNION {[1..n -> {AudioFile(f) : f \in names}] : n \in 0..MaxFiles}

\* error.message of whatever a stage's try block throws; NoError: it does not throw
NoError == "none"

Messages == {"corrupt audio", "backend unavailable"}

Thrown == {NoError} \cup Messages

\* Math.random(), in thousandths
FeatureDraws == {[k \in 1..8 |-> r] : r \in {0, 999}}

ModelDraws == {<<0, 0, 0>>, <<800, 500, 400>>, <<999, 999, 999>>}

DurationDraws == {999}

Undefined == "undefined"

\* results: null, written so that it compares with an array of results
NoResults == <<[null |-> TRUE]>>

\* every input of the bounded sets above
WideEnv ==
    [batches |-> AudioBatches(FileNames),
     thrown |-> Thrown,
     durationDraws |-> DurationDraws,
     featureDraws |-> FeatureDraws,
     modelDraws |-> ModelDraws]

\* one file name, one error message, one draw of each kind
NarrowEnv ==
    [batches |-> AudioBatches({"a.wav"}),
     thrown |-> {NoError, "corrupt audio"},
     durationDraws |-> {999},
     featureDraws |-> {[k \in 1..8 |-> 999]},
     modelDraws |-> {<<800, 500, 400>>}]

---------------------------------------------------------------------------
(* Numbers *)

RECURSIVE GCD(_, _)
GCD(a, b) == IF b = 0 THEN a ELSE GCD(b, a % b)

\* n / d as an exact fraction, d > 0
Rat(n, d) == LET g == GCD(n, d) IN [num |-> n \div g, den |-> d \div g]

Num(n) == Rat(n, 1)

\* {...base, ...payload}
Spread(base, payload) ==
    [k \in DOMAIN base \cup DOMAIN payload |->
        IF k \in DOMAIN payload THEN payload[k] ELSE base[k]]

---------------------------------------------------------------------------
(* The stage functions.  Each is `try { ... return {success: true, data} }  *)
(* catch (error) { return {success: false, error: `...${error.message}`} }`: *)
(* `thrown` is the message of what the try block throws, NoError if nothing. *)

preprocessAudio(audioFile, r, thrown) ==
    IF thrown = NoError
    THEN [success |-> TRUE,
          data |-> [file |-> audioFile,
                    duration |-> r * 60 * 1000 + 20 * 1000000,
                    sampleRate |-> 16000]]
    ELSE [success |-> FALSE, error |-> <<"Error preprocessing audio: ", thrown>>]

PlaceholderTranscription ==
    "This is a placeholder transcription for demonstration purposes. In a real application, this would be the actual transcribed speech from the audio file."

transcribeAudio(audioFile, model, thrown) ==
    IF thrown = NoError
    THEN [success |-> TRUE,
          data |-> [file |-> audioFile,
                    transcription |-> PlaceholderTranscription,
                    confidence |-> 870000,
                    model |-> IF model = Undefined THEN "wav2vec2" ELSE model]]
    ELSE [success |-> FALSE, error |-> <<"Error transcribing audio: ", thrown>>]

\* semantic_anomaly left unscaled: 0.1 + Math.random() * 2
extractFeaturesUnscaled(audioFile, transcription, rnd, thrown) ==
    IF thrown = NoError
    THEN [success |-> TRUE,
          data |-> [file |-> audioFile,
                    features |->
                      [hesitation_count    |-> (rnd[1] * 10) \div 1000,
                       pause_count         |-> (rnd[2] * 8) \div 1000,
                       speech_rate         |-> 2 * 1000000 + rnd[3] * 2 * 1000,
                       pitch_variability   |-> 800 * 1000000 + rnd[4] * 300 * 1000,
                       semantic_anomaly    |-> 100000 + rnd[5] * 2000,
                       vague_word_count    |-> (rnd[6] * 3) \div 1000,
                       incomplete_sentence |-> IF rnd[7] > 800 THEN 1 ELSE 0,
                       lost_words          |-> (rnd[8] * 5) \div 1000]]]
    ELSE [success |-> FALSE, error |-> <<"Error extracting features: ", thrown>>]

extractFeatures(audioFile, transcription, rnd, thrown) ==
    IF thrown = NoError
    THEN [success |-> TRUE,
          data |-> [file |-> audioFile,
                    features |->
                      [hesitation_count    |-> (rnd[1] * 10) \div 1000,
                       pause_count         |-> (rnd[2] * 8) \div 1000,
                       speech_rate         |-> 2 * 1000000 + rnd[3] * 2 * 1000,
                       pitch_variability   |-> 800 * 1000000 + rnd[4] * 300 * 1000,
                       semantic_anomaly    |-> 100000 + rnd[5] * 200,
                       vague_word_count    |-> (rnd[6] * 3) \div 1000,
                       incomplete_sentence |-> IF rnd[7] > 800 THEN 1 ELSE 0,
                       lost_words          |-> (rnd[8] * 5) \div 1000]]]
    ELSE [success |-> FALSE, error |-> <<"Error extracting features: ", thrown>>]

\* the confidence spread over 0.35: 0.7 + Math.random() * 0.35
runAnalysisModelOverconfident(features, settingsObject, rnd, thrown) ==
    IF thrown = NoError
    THEN LET isAtRisk == rnd[1] > 700 IN
         [success |-> TRUE,
          data |-> [risk_status |-> IF isAtRisk THEN "At Risk" ELSE "Normal",
                    confidence |-> 700000 + rnd[2] * 350,
                    model_used |-> settingsObject.modelType,
                    key_indicators |->
                      IF isAtRisk
                      THEN SubSeq(<<"Hesitation", "Semantic Anomaly", "Slow Speech Rate">>,
                                  1, (rnd[3] * 3) \div 1000 + 1)
                      ELSE <<"Normal Speech Pattern">>,
                    analysis_notes |->
                      IF isAtRisk
                      THEN <<"Higher than normal hesitation frequency detected",
                             "Semantic coherence is below average",
                             "Speech patterns show potential cognitive indicators">>
                      ELSE <<"Speech patterns within normal range",
                             "No significant cognitive indicators detected">>]]
    ELSE [success |-> FALSE, error |-> <<"Error running analysis model: ", thrown>>]

\* the slice taken without the + 1: slice(0, Math.floor(Math.random() * 3))
runAnalysisModelNoIndicator(features, settingsObject, rnd, thrown) ==
    IF thrown = NoError
    THEN LET isAtRisk == rnd[1] > 700 IN
         [success |-> TRUE,
          data |-> [risk_status |-> IF isAtRisk THEN "At Risk" ELSE "Normal",
                    confidence |-> 700000 + rnd[2] * 250,
                    model_used |-> settingsObject.modelType,
                    key_indicators |->
                      IF isAtRisk
                      THEN SubSeq(<<"Hesitation", "Semantic Anomaly", "Slow Speech Rate">>,
                                  1, (rnd[3] * 3) \div 1000)
                      ELSE <<"Normal Speech Pattern">>,
                    analysis_notes |->
                      IF isAtRisk
                      THEN <<"Higher than normal hesitation frequency detected",
                             "Semantic coherence is below average",
                             "Speech patterns show potential cognitive indicators">>
                      ELSE <<"Speech patterns within normal range",
                             "No significant cognitive indicators detected">>]]
    ELSE [success |-> FALSE, error |-> <<"Error running analysis model: ", thrown>>]

runAnalysisModel(features, settingsObject, rnd, thrown) ==
    IF thrown = NoError
    THEN LET isAtRisk == rnd[1] > 700 IN
         [success |-> TRUE,
          data |-> [risk_status |-> IF isAtRisk THEN "At Risk" ELSE "Normal",
                    confidence |-> 700000 + rnd[2] * 250,
                    model_used |-> settingsObject.modelType,
                    key_indicators |->
                      IF isAtRisk
                      THEN SubSeq(<<"Hesitation", "Semantic Anomaly", "Slow Speech Rate">>,
                                  1, (rnd[3] * 3) \div 1000 + 1)
                      ELSE <<"Normal Speech Pattern">>,
                    analysis_notes |->
                      IF isAtRisk
                      THEN <<"Higher than normal hesitation frequency detected",
                             "Semantic coherence is below average",
                             "Speech patterns show potential cognitive indicators">>
                      ELSE <<"Speech patterns within normal range",
                             "No significant cognitive indicators detected">>]]
    ELSE [success |-> FALSE, error |-> <<"Error running analysis model: ", thrown>>]

---------------------------------------------------------------------------
(* The analysis context: initialState and analysisReducer *)

Refs == {"s0", "s1", "s2", "s3"}

\* the settings object of initialState, which the module keeps for RESET
InitialRef == "s0"

initialSettings ==
    [modelType |-> "isolation_forest",
     contamination |-> 200000,
     featureWeights |-> [hesitation_count    |-> 1000000,
                         pause_count         |-> 1000000,
                         speech_rate         |-> 1000000,
                         pitch_variability   |-> 1000000,
                         semantic_anomaly    |-> 1000000,
                         vague_word_count    |-> 1000000,
                         incomplete_sentence |-> 1000000,
                         lost_words          |-> 1000000],
     transcriptionModel |-> "wav2vec2"]

initialState ==
    [datasetPath |-> "",
     audioFiles |-> <<>>,
     settings |-> InitialRef,
     processing |-> [isProcessing |-> FALSE,
                     currentStep |-> 0,
                     totalSteps |-> 5,
                     stepName |-> "",
                     progress |-> Num(0)],
     results |-> NoResults,
     error |-> Undefined]

\* objects something still refers to: initialState's, the state's, a running pipeline's
Live(st) ==
    {InitialRef, st.settings} \cup (IF pc \in {"idle", "done"} THEN {} ELSE {settings})

FreshRef == CHOOSE r \in Refs : r \notin Live(state)

Collect(hp, live) == [r \in Refs |-> IF r \in live THEN hp[r] ELSE Undefined]

\* UPDATE_SETTINGS, in place: Object.assign(state.settings, action.payload)
assignSettings(hp, old, fresh, payload) ==
    [hp EXCEPT ![old] = Spread(hp[old], payload), ![fresh] = Spread(hp[old], payload)]

\* UPDATE_SETTINGS: settings: {...state.settings, ...action.payload}, a new object
spreadSettings(hp, old, fresh, payload) ==
    [hp EXCEPT ![fresh] = Spread(hp[old], payload)]

\* the reducer with a SET_ERROR that clears results
analysisReducerClearing(st, action) ==
    CASE action.type = "SET_DATASET_PATH" -> [st EXCEPT !.datasetPath = action.payload]
      [] action.type = "SET_AUDIO_FILES" -> [st EXCEPT !.audioFiles = action.payload]
      [] action.type = "UPDATE_SETTINGS" -> [st EXCEPT !.settings = FreshRef]
      [] action.type = "START_PROCESSING" ->
           [st EXCEPT !.processing = Spread(st.processing,
                                            [isProcessing |-> TRUE,
                                             currentStep |-> 1,
                                             stepName |-> "Preprocessing Audio",
                                             progress |-> Num(0)]),
                      !.error = Undefined]
      [] action.type = "UPDATE_PROCESSING" ->
           [st EXCEPT !.processing = Spread(st.processing, action.payload)]
      [] action.type = "SET_RESULTS" ->
           [st EXCEPT !.results = action.payload,
                      !.processing = Spread(st.processing, [isProcessing |-> FALSE])]
      [] action.type = "SET_ERROR" ->
           [st EXCEPT !.error = action.payload,
                      !.results = NoResults,
                      !.processing = Spread(st.processing, [isProcessing |-> FALSE])]
      [] action.type = "RESET" -> initialState
      [] OTHER -> st

analysisReducer(st, action) ==
    CASE action.type = "SET_DATASET_PATH" -> [st EXCEPT !.datasetPath = action.payload]
      [] action.type = "SET_AUDIO_FILES" -> [st EXCEPT !.audioFiles = action.payload]
      [] action.type = "UPDATE_SETTINGS" -> [st EXCEPT !.settings = FreshRef]
      [] action.type = "START_PROCESSING" ->
           [st EXCEPT !.processing = Spread(st.processing,
                                            [isProcessing |-> TRUE,
                                             currentStep |-> 1,
                                             stepName |-> "Preprocessing Audio",
                                             progress |-> Num(0)]),
                      !.error = Undefined]
      [] action.type = "UPDATE_PROCESSING" ->
           [st EXCEPT !.processing = Spread(st.processing, action.payload)]
      [] action.type = "SET_RESULTS" ->
           [st EXCEPT !.results = action.payload,
                      !.processing = Spread(st.processing, [isProcessing |-> FALSE])]
      [] action.type = "SET_ERROR" ->
           [st EXCEPT !.error = action.payload,
                      !.processing = Spread(st.processing, [isProcessing |-> FALSE])]
      [] action.type = "RESET" -> initialState
      [] OTHER -> st

\* the heap after analysisReducer(st, action)
heapAfter(st, hp, action) ==
    IF action.type = "UPDATE_SETTINGS"
    THEN Collect(spreadSettings(hp, st.settings, FreshRef, action.payload),
                 Live(analysisReducer(st, action)))
    ELSE Collect(hp, Live(analysisReducer(st, action)))

\* the payload's progress taken as an increment: progress: old + payload.progress
updateProcessingAdding(st, progress) ==
    LET merged == analysisReducer(st, [type |-> "UPDATE_PROCESSING", payload |-> progress])
        old == st.processing.progress
        new == progress.progress
    IN  [merged EXCEPT !.processing.progress =
                          Rat(old.num * new.den + new.num * old.den, old.den * new.den)]

\* updateProcessing, the callback the context hands out as updateProgress
updateProcessing(st, progress) ==
    analysisReducer(st, [type |-> "UPDATE_PROCESSING", payload |-> progress])

RECURSIVE updateAll(_, _)
updateAll(st, payloads) ==
    IF payloads = <<>> THEN st
    ELSE updateAll(updateProcessing(st, Head(payloads)), Tail(payloads))

---------------------------------------------------------------------------
(* processAudioPipeline *)

ProgressEntry(f, payload) == [kind |-> "progress", file |-> f, payload |-> payload]

InvokeEntry(f, fn, args) == [kind |-> "invoke", file |-> f, fn |-> fn, args |-> args]

SettleEntry(f, fn, result) == [kind |-> "settle", file |-> f, fn |-> fn, result |-> result]

CallEntry(files, settingsObject) ==
    [kind |-> "call", files |-> files, settings |-> settingsObject]

StepName(s) ==
    CASE s = 1 -> "Preprocessing Audio"
      [] s = 2 -> "Transcribing Audio"
      [] s = 3 -> "Extracting Features"
      [] s = 4 -> "Running Analysis Model"
      [] s = 5 -> "Compiling Results"

\* the block of step 3 pasted from step 2 with its currentStep left as it was
StepStartPasted(s) ==
    [currentStep |-> IF s = 3 THEN 2 ELSE s, stepName |-> StepName(s), progress |-> Num(0)]

\* updateProgress({currentStep: s, stepName: ..., progress: 0})
StepStart(s) == [currentStep |-> s, stepName |-> StepName(s), progress |-> Num(0)]

\* updateProgress({progress: 100})
StepDone == [progress |-> Num(100)]

\* the share left undivided: progress: (i + 1) * 100
StepCompiledUndivided(idx, files) ==
    [currentStep |-> 5, stepName |-> StepName(5), progress |-> Num((idx + 1) * 100)]

\* updateProgress({currentStep: 5, ..., progress: (i + 1) / audioFiles.length * 100})
StepCompiled(idx, files) ==
    [currentStep |-> 5, stepName |-> StepName(5),
     progress |-> Rat((idx + 1) * 100, Len(files))]

\* the test of the result left out after preprocessAudio, whose data the pipeline never reads
failedLater(result) ==
    ~result.success /\ result.error[1] # "Error preprocessing audio: "

\* if (!x.success) throw new Error(x.error)
failed(result) == ~result.success

\* the record keyed in camel case: fileName, riskStatus
compileResultCamelCase(idx, audioFile, transcription, features, analysis) ==
    [id |-> "result-" \o ToString(idx),
     fileName |-> audioFile.name,
     riskStatus |-> analysis.data.risk_status,
     confidence |-> analysis.data.confidence,
     key_indicators |-> analysis.data.key_indicators,
     features |-> features.data.features,
     transcription |-> transcription.data.transcription,
     analysis_notes |-> analysis.data.analysis_notes]

\* the record numbered from 1 instead of from 0
compileResultMisnumbered(idx, audioFile, transcription, features, analysis) ==
    [id |-> "result-" \o ToString(idx + 1),
     file_name |-> audioFile.name,
     risk_status |-> analysis.data.risk_status,
     confidence |-> analysis.data.confidence,
     key_indicators |-> analysis.data.key_indicators,
     features |-> features.data.features,
     transcription |-> transcription.data.transcription,
     analysis_notes |-> analysis.data.analysis_notes]

\* results.push({id: `result-${i}`, file_name: audioFile.name, ...})
compileResult(idx, audioFile, transcription, features, analysis) ==
    [id |-> "result-" \o ToString(idx),
     file_name |-> audioFile.name,
     risk_status |-> analysis.data.risk_status,
     confidence |-> analysis.data.confidence,
     key_indicators |-> analysis.data.key_indicators,
     features |-> features.data.features,
     transcription |-> transcription.data.transcription,
     analysis_notes |-> analysis.data.analysis_notes]

\* return {success: true, data: results}
pipelineSuccess(res) == [success |-> TRUE, data |-> res]

\* per-file isolation: the failure returned with the results so far and a record of the failed file
pipelineFailureWithResults(res, message) ==
    [success |-> FALSE,
     error |-> <<"Error in audio processing pipeline: ">> \o message,
     data |-> Append(res, [id |-> "result-" \o ToString(Len(res)), error |-> message])]

\* catch (error): return {success: false, error: `Error in audio processing pipeline: ${error.message}`}
pipelineFailure(res, message) ==
    [success |-> FALSE, error |-> <<"Error in audio processing pipeline: ">> \o message]

\* calling an async stage function begins it
Begin(inf, call) == inf \cup {call}

\* the call made without `await`: the pipeline goes on while the stage still runs
NoAwait(inf, call) == inf

\* `await`: the pipeline resumes when the stage call has ended
Await(inf, call) == inf \ {call}

\* the head of `for (let i = 0; i < audioFiles.length; i++)`, up to the first await
LoopHead(files, idx, res, tr, st, inf) ==
    IF idx < Len(files)
    THEN \E r \in env.durationDraws, thrown \in env.thrown :
           /\ pc' = "preprocess"
           /\ i' = idx
           /\ results' = res
           /\ pending' = preprocessAudio(files[idx + 1], r, thrown)
           /\ trace' = tr \o <<ProgressEntry(idx, StepStart(1)),
                               InvokeEntry(idx, "preprocessAudio", <<files[idx + 1]>>)>>
           /\ state' = updateProcessing(st, StepStart(1))
           /\ inflight' = Begin(inf, <<idx, "preprocessAudio">>)
           /\ transcriptionResult' = Undefined
           /\ featuresResult' = Undefined
           /\ UNCHANGED <<heap, outcome>>
    ELSE /\ pc' = "done"
         /\ i' = idx
         /\ results' = res
         /\ outcome' = pipelineSuccess(res)
         /\ trace' = tr
         /\ state' = st
         /\ inflight' = inf
         /\ heap' = Collect(heap, {InitialRef, st.settings})
         /\ UNCHANGED <<pending, transcriptionResult, featuresResult>>

\* throw new Error(x.error), caught by the function's catch
Throw(message, tr, inf) ==
    /\ pc' = "done"
    /\ outcome' = pipelineFailure(results, message)
    /\ trace' = tr
    /\ inflight' = inf
    /\ heap' = Collect(heap, {InitialRef, state.settings})
    /\ UNCHANGED <<state, audioFiles, settings, i, results, transcriptionResult,
                   featuresResult, pending, staleRead>>

\* a caller invokes processAudioPipeline(files, state.settings, updateProcessing)
CallPipeline ==
    /\ UNCHANGED <<env, ui, applied, runs>>
    /\ pc = "idle"
    /\ \E files \in env.batches :
         /\ audioFiles' = files
         /\ settings' = state.settings
         /\ UNCHANGED staleRead
         /\ LoopHead(files, 0, <<>>, <<CallEntry(files, heap[state.settings])>>, state, {})

ResumePreprocess ==
    /\ UNCHANGED <<env, ui, applied, runs>>
    /\ pc = "preprocess"
    /\ LET preprocessedAudio == pending
           audioFile == audioFiles[i + 1]
           settled == Append(trace, SettleEntry(i, "preprocessAudio", preprocessedAudio))
           inf == Await(inflight, <<i, "preprocessAudio">>)
       IN  IF failed(preprocessedAudio)
           THEN Throw(preprocessedAudio.error, settled, inf)
           ELSE \E thrown \in env.thrown :
                  /\ pc' = "transcribe"
                  /\ pending' = transcribeAudio(audioFile,
                                                heap[settings].transcriptionModel, thrown)
                  /\ trace' = settled \o
                       <<ProgressEntry(i, StepDone),
                         ProgressEntry(i, StepStart(2)),
                         InvokeEntry(i, "transcribeAudio",
                                     <<audioFile, heap[settings].transcriptionModel>>)>>
                  /\ state' = updateAll(state, <<StepDone, StepStart(2)>>)
                  /\ inflight' = Begin(inf, <<i, "transcribeAudio">>)
                  /\ staleRead' = (staleRead \/ heap[state.settings] # heap[settings])
                  /\ UNCHANGED <<heap, audioFiles, settings, i, results,
                                 transcriptionResult, featuresResult, outcome>>

ResumeTranscribe ==
    /\ UNCHANGED <<env, ui, applied, runs>>
    /\ pc = "transcribe"
    /\ LET audioFile == audioFiles[i + 1]
           settled == Append(trace, SettleEntry(i, "transcribeAudio", pending))
           inf == Await(inflight, <<i, "transcribeAudio">>)
       IN  IF failed(pending)
           THEN Throw(pending.error, settled, inf)
           ELSE \E rnd \in env.featureDraws, thrown \in env.thrown :
                  /\ pc' = "extract"
                  /\ transcriptionResult' = pending
                  /\ pending' = extractFeatures(audioFile, pending.data.transcription,
                                                rnd, thrown)
                  /\ trace' = settled \o
                       <<ProgressEntry(i, StepDone),
                         ProgressEntry(i, StepStart(3)),
                         InvokeEntry(i, "extractFeatures",
                                     <<audioFile, pending.data.transcription>>)>>
                  /\ state' = updateAll(state, <<StepDone, StepStart(3)>>)
                  /\ inflight' = Begin(inf, <<i, "extractFeatures">>)
                  /\ UNCHANGED <<heap, audioFiles, settings, i, results,
                                 featuresResult, outcome, staleRead>>

ResumeExtract ==
    /\ UNCHANGED <<env, ui, applied, runs>>
    /\ pc = "extract"
    /\ LET settled == Append(trace, SettleEntry(i, "extractFeatures", pending))
           inf == Await(inflight, <<i, "extractFeatures">>)
       IN  IF failed(pending)
           THEN Throw(pending.error, settled, inf)
           ELSE \E rnd \in env.modelDraws, thrown \in env.thrown :
                  /\ pc' = "model"
                  /\ featuresResult' = pending
                  /\ pending' = runAnalysisModel(pending.data.features, heap[settings],
                                                 rnd, thrown)
                  /\ trace' = settled \o
                       <<ProgressEntry(i, StepDone),
                         ProgressEntry(i, StepStart(4)),
                         InvokeEntry(i, "runAnalysisModel",
                                     <<pending.data.features, heap[settings]>>)>>
                  /\ state' = updateAll(state, <<StepDone, StepStart(4)>>)
                  /\ inflight' = Begin(inf, <<i, "runAnalysisModel">>)
                  /\ staleRead' = (staleRead \/ heap[state.settings] # heap[settings])
                  /\ UNCHANGED <<heap, audioFiles, settings, i, results,
                                 transcriptionResult, outcome>>

ResumeModel ==
    /\ UNCHANGED <<env, ui, applied, runs>>
    /\ pc = "model"
    /\ LET analysisResult == pending
           audioFile == audioFiles[i + 1]
           settled == Append(trace, SettleEntry(i, "runAnalysisModel", analysisResult))
           inf == Await(inflight, <<i, "runAnalysisModel">>)
       IN  IF failed(analysisResult)
           THEN Throw(analysisResult.error, settled, inf)
           ELSE /\ UNCHANGED <<audioFiles, settings, staleRead>>
                /\ LoopHead(audioFiles, i + 1,
                            Append(results,
                                   compileResult(i, audioFile, transcriptionResult,
                                                 featuresResult, analysisResult)),
                            settled \o <<ProgressEntry(i, StepDone),
                                         ProgressEntry(i, StepCompiled(i, audioFiles))>>,
                            updateAll(state, <<StepDone, StepCompiled(i, audioFiles)>>),
                            inf)

---------------------------------------------------------------------------
(* processAudioPipeline called with what a caller should not pass *)

\* what a callback can throw: an Error, a string, null
Throwables ==
    {[thrown |-> "Error", message |-> "callback failed"],
     [thrown |-> "string", message |-> "undefined"],
     [thrown |-> "null", message |-> "undefined"]}

\* null passed as the file list, written so that it compares with a list of files
NoFiles == <<[null |-> TRUE]>>

\* audioFiles.length of a null list: the TypeError the engine throws
NullLength ==
    [thrown |-> "Error", message |-> "Cannot read properties of null (reading 'length')"]

\* the promise rejected with the TypeError of error.message on null
pipelineRejection ==
    [rejected |-> TRUE,
     reason |-> "Cannot read properties of null (reading 'message')"]

\* the catch block of processAudioPipeline entered with the thrown value: the template
\* reads error.message, undefined on a string, a TypeError of its own on null
catchPipeline(res, error) ==
    IF error.thrown = "null"
    THEN pipelineRejection
    ELSE pipelineFailure(res, <<error.message>>)

\* the call ended in its first synchronous part
EndedAtOnce(files, result) ==
    /\ pc' = "done"
    /\ audioFiles' = files
    /\ settings' = state.settings
    /\ outcome' = result
    /\ trace' = <<CallEntry(files, heap[state.settings])>>
    /\ UNCHANGED <<state, heap, i, results, transcriptionResult, featuresResult,
                   pending, inflight, staleRead>>

\* processAudioPipeline(null, settings, updateProgress), or with a callback that
\* throws when it is first called
CallPipelineHostile ==
    /\ UNCHANGED <<env, ui, applied, runs>>
    /\ pc = "idle"
    /\ \/ EndedAtOnce(NoFiles, catchPipeline(<<>>, NullLength))
       \/ \E files \in env.batches, error \in Throwables :
             EndedAtOnce(files, IF Len(files) = 0
                                THEN pipelineSuccess(<<>>)
                                ELSE catchPipeline(<<>>, error))

---------------------------------------------------------------------------
(* Dispatches from the rest of the application while a run is in flight *)

SettingsPayloads ==
    {[modelType |-> m] : m \in {"isolation_forest", "kmeans", "both"}}
    \cup {[transcriptionModel |-> t] : t \in {"wav2vec2", "whisper"}}

\* updateSettings(payload): dispatch({type: 'UPDATE_SETTINGS', payload})
UpdateSettings ==
    \E payload \in SettingsPayloads :
       LET action == [type |-> "UPDATE_SETTINGS", payload |-> payload] IN
       /\ state' = analysisReducer(state, action)
       /\ heap' = heapAfter(state, heap, action)
       /\ UNCHANGED <<env, ui, applied, runs, pipelineVars>>

\* what the application asked for while a run was going on
RequestEntry(what) == [kind |-> "request", what |-> what]

(* reset(): dispatch({ type: 'RESET' }), the one operation of the context    *)
(* that puts it back to idle; the history notes the first one made during a  *)
(* run of the pipeline                                                       *)
Reset ==
    LET action == [type |-> "RESET"] IN
    /\ state' = analysisReducer(state, action)
    /\ heap' = heapAfter(state, heap, action)
    /\ trace' = IF /\ pc \notin {"idle", "done"}
                   /\ \A p \in 1..Len(trace) : trace[p].kind # "request"
                THEN Append(trace, RequestEntry("reset"))
                ELSE trace
    /\ UNCHANGED <<env, ui, applied, runs, pc, audioFiles, settings, i, results,
                   transcriptionResult, featuresResult, pending, outcome, inflight,
                   staleRead>>

---------------------------------------------------------------------------
(* featureUtils.js *)

\* null, written so that it compares with an object
Null == [null |-> TRUE]

\* what 0 / 0 gives
NaN == [num |-> 0, den |-> 0]

RiskKeys == {"a", "b", "c"}

\* feature maps: null, and every object over some of the keys a and b
FeatureMaps == {Null} \cup UNION {[D -> {10, 20}] : D \in SUBSET {"a", "b"}}

\* weight maps, in millionths: null, and every object over some of the keys
WeightMaps == {Null} \cup UNION {[D -> {0, 1000000, 2000000}] : D \in SUBSET RiskKeys}

\* `if (weights[feature])`: an absent weight (undefined) and 0 are falsy
Truthy(weights, feature) == feature \in DOMAIN weights /\ weights[feature] # 0

\* the body of `for (const feature in features)`, for the keys still to visit
RECURSIVE weigh(_, _, _, _)
weigh(features, weights, keys, sums) ==
    IF keys = {} THEN sums
    ELSE LET feature == CHOOSE k \in keys : TRUE
             added == IF Truthy(weights, feature)
                      THEN [weightedSum |-> sums.weightedSum
                                              + features[feature] * weights[feature],
                            weightTotal |-> sums.weightTotal + weights[feature]]
                      ELSE sums
         IN  weigh(features, weights, keys \ {feature}, added)

\* the weights counted one each: weightTotal += 1
calculateRiskScoreUnweighted(features, weights) ==
    IF features = Null \/ weights = Null THEN Num(0)
    ELSE LET sums == weigh(features, weights, DOMAIN features,
                           [weightedSum |-> 0, weightTotal |-> 0])
             counted == Cardinality({k \in DOMAIN features : Truthy(weights, k)})
         IN  IF counted > 0 THEN Rat(sums.weightedSum, 1000000 * counted) ELSE Num(0)

\* the division made without the test of weightTotal: weightedSum / weightTotal
calculateRiskScoreUnguarded(features, weights) ==
    IF features = Null \/ weights = Null THEN Num(0)
    ELSE LET sums == weigh(features, weights, DOMAIN features,
                           [weightedSum |-> 0, weightTotal |-> 0])
         IN  IF sums.weightTotal = 0 THEN NaN
             ELSE Rat(sums.weightedSum, sums.weightTotal)

calculateRiskScore(features, weights) ==
    IF features = Null \/ weights = Null THEN Num(0)
    ELSE LET sums == weigh(features, weights, DOMAIN features,
                           [weightedSum |-> 0, weightTotal |-> 0])
         IN  IF sums.weightTotal > 0
             THEN Rat(sums.weightedSum, sums.weightTotal)
             ELSE Num(0)

\* a direct call of a function, as the history keeps it
Application(fn, args, ret) == [fn |-> fn, args |-> args, ret |-> ret]

ApplyCalculateRiskScore ==
    /\ pc = "idle"
    /\ applied = <<>>
    /\ \E features \in FeatureMaps, weights \in WeightMaps :
         applied' = <<Application("calculateRiskScore", <<features, weights>>,
                                  calculateRiskScore(features, weights))>>
    /\ UNCHANGED <<env, ui, state, heap, runs, pipelineVars>>

\* Settings.contamination as the panel's slider can set it, in millionths
Contaminations == {100000, 200000, 400000}

\* runAnalysisModel(features, settings) called on one feature vector
ApplyRunAnalysisModel ==
    /\ pc = "idle"
    /\ applied = <<>>
    /\ \E drawn \in env.featureDraws, c \in Contaminations, rnd \in env.modelDraws :
         LET features == extractFeatures(AudioFile("a.wav"), PlaceholderTranscription,
                                         drawn, NoError).data.features
             settingsObject == [initialSettings EXCEPT !.contamination = c]
         IN  applied' = <<Application("runAnalysisModel", <<features, settingsObject>>,
                                      runAnalysisModel(features, settingsObject, rnd,
                                                       NoError))>>
    /\ UNCHANGED <<env, ui, state, heap, runs, pipelineVars>>

\* runAnalysisModel called once more on the feature vector of the call before
ApplyRunAnalysisModelAgain ==
    /\ pc = "idle"
    /\ Len(applied) = 1
    /\ applied[1].fn = "runAnalysisModel"
    /\ \E c \in Contaminations, rnd \in env.modelDraws :
         LET features == applied[1].args[1]
             settingsObject == [initialSettings EXCEPT !.contamination = c]
         IN  applied' = Append(applied,
                               Application("runAnalysisModel", <<features, settingsObject>>,
                                           runAnalysisModel(features, settingsObject, rnd,
                                                            NoError)))
    /\ UNCHANGED <<env, ui, state, heap, runs, pipelineVars>>

---------------------------------------------------------------------------
(* featureUtils.js: the functions of a transcription.  A string is the       *)
(* sequence of its characters; "" is <<>>.                                   *)

MaxText == 4

\* every string over the alphabet of at most n characters
Texts(alphabet, n) == UNION {[1..k -> alphabet] : k \in 0..n}

\* what \s matches
Whitespace == {" "}

\* null in the place of a string, written so that it compares with one
NoText == <<"null">>

\* `!transcription`: null and "" are falsy
Falsy(transcription) == transcription = NoText \/ transcription = <<>>

\* String.prototype.split with a pattern of one or more separators, Sep+:
\* the pieces between the maximal runs of separators, empty ones kept
RECURSIVE splitFrom(_, _, _, _, _)
splitFrom(text, Sep, k, piece, pieces) ==
    IF k > Len(text) THEN Append(pieces, piece)
    ELSE IF text[k] \in Sep
         THEN IF k > 1 /\ text[k - 1] \in Sep
              THEN splitFrom(text, Sep, k + 1, piece, pieces)
              ELSE splitFrom(text, Sep, k + 1, <<>>, Append(pieces, piece))
         ELSE splitFrom(text, Sep, k + 1, Append(piece, text[k]), pieces)

split(text, Sep) == splitFrom(text, Sep, 1, <<>>, <<>>)

\* the words counted with the empty pieces among them: no .filter(word => word.length > 0)
calculateSpeechRateUnfiltered(transcription, durationInSeconds) ==
    IF Falsy(transcription) \/ durationInSeconds <= 0 THEN Num(0)
    ELSE Rat(Len(split(transcription, Whitespace)) * 60, durationInSeconds)

\* wordCount / (durationInSeconds / 60), as the exact fraction wordCount * 60 / seconds
calculateSpeechRate(transcription, durationInSeconds) ==
    IF Falsy(transcription) \/ durationInSeconds <= 0 THEN Num(0)
    ELSE LET words == SelectSeq(split(transcription, Whitespace), LAMBDA word : Len(word) > 0)
             wordCount == Len(words)
         IN  Rat(wordCount * 60, durationInSeconds)

\* the lower-case letter of each upper-case letter of the alphabets used
LowerCase == [U |-> "u", M |-> "m", H |-> "h", S |-> "s", O |-> "o", T |-> "t", I |-> "i"]

\* String.prototype.toLowerCase
toLowerCase(text) ==
    [k \in 1..Len(text) |-> IF text[k] \in DOMAIN LowerCase THEN LowerCase[text[k]] ELSE text[k]]

hesitationWords ==
    {<<"u", "h">>, <<"u", "m">>, <<"e", "r">>, <<"a", "h">>, <<"h", "m", "m">>,
     <<"e", "h", "m">>}

\* the words compared as they are written: no .toLowerCase()
countHesitationsCaseSensitive(transcription) ==
    IF Falsy(transcription) THEN 0
    ELSE Len(SelectSeq(split(transcription, Whitespace), LAMBDA word : word \in hesitationWords))

countHesitations(transcription) ==
    IF Falsy(transcription) THEN 0
    ELSE LET words == split(toLowerCase(transcription), Whitespace)
         IN  Len(SelectSeq(words, LAMBDA word : word \in hesitationWords))

ApplyCountHesitations ==
    /\ pc = "idle"
    /\ applied = <<>>
    /\ \E transcription \in {NoText} \cup Texts({"u", "m", "U", "h", " "}, MaxText + 1) :
         applied' = <<Application("countHesitations", <<transcription>>,
                                  countHesitations(transcription))>>
    /\ UNCHANGED <<env, ui, state, heap, runs, pipelineVars>>

\* how many times the character c is repeated from position k on
RECURSIVE runLength(_, _, _)
runLength(text, k, c) ==
    IF k > Len(text) \/ text[k] # c THEN 0 ELSE 1 + runLength(text, k + 1, c)

\* the pattern without its quantifiers: /\.\.|,,|--/g, two characters a match
pauseAtPair(text, k) ==
    IF \E c \in {".", ",", "-"} : runLength(text, k, c) >= 2 THEN 2 ELSE 0

\* the length of the match of /\.{2,}|,{2,}|\.\.\.|--+/ that begins at k, 0 if none:
\* the alternatives in their order, each quantifier greedy
pauseAt(text, k) ==
    IF runLength(text, k, ".") >= 2 THEN runLength(text, k, ".")
    ELSE IF runLength(text, k, ",") >= 2 THEN runLength(text, k, ",")
    ELSE IF k + 2 <= Len(text) /\ SubSeq(text, k, k + 2) = <<".", ".", ".">> THEN 3
    ELSE IF runLength(text, k, "-") >= 2 THEN runLength(text, k, "-")
    ELSE 0

\* String.prototype.match with the g flag: the matches from left to right, each
\* search resumed where the match before ended
RECURSIVE pauseMatches(_, _)
pauseMatches(text, k) ==
    IF k > Len(text) THEN <<>>
    ELSE IF pauseAt(text, k) > 0
         THEN <<SubSeq(text, k, k + pauseAt(text, k) - 1)>>
                 \o pauseMatches(text, k + pauseAt(text, k))
         ELSE pauseMatches(text, k + 1)

countPauses(transcription) ==
    IF Falsy(transcription) THEN 0
    ELSE LET matches == pauseMatches(transcription, 1)
         IN  IF matches # <<>> THEN Len(matches) ELSE 0

ApplyCountPauses ==
    /\ pc = "idle"
    /\ applied = <<>>
    /\ \E transcription \in {NoText} \cup Texts({".", ",", "-", "a"}, MaxText + 1) :
         applied' = <<Application("countPauses", <<transcription>>,
                                  countPauses(transcription))>>
    /\ UNCHANGED <<env, ui, state, heap, runs, pipelineVars>>

\* String.prototype.trim
RECURSIVE trim(_)
trim(text) ==
    IF text = <<>> THEN text
    ELSE IF Head(text) \in Whitespace THEN trim(Tail(text))
    ELSE IF text[Len(text)] \in Whitespace THEN trim(SubSeq(text, 1, Len(text) - 1))
    ELSE text

\* what \w matches, of the alphabets used
WordCharacters ==
    {"a", "b", "c", "d", "e", "f", "g", "h", "i", "k", "l", "m", "n", "o", "r", "s", "t",
     "u", "w", "y", "U", "M", "H", "S", "O", "T", "I"}

conjunctions ==
    {<<"a", "n", "d">>, <<"b", "u", "t">>, <<"o", "r">>, <<"s", "o">>,
     <<"b", "e", "c", "a", "u", "s", "e">>, <<"i", "f">>, <<"w", "h", "e", "n">>}

\* /\b(and|but|or|so|because|if|when)\s*$/i.test(text): one of the words begins at
\* a word boundary and only whitespace follows it
endsWithConjunction(text) ==
    \E k \in 1..Len(text) :
       \E word \in conjunctions :
          /\ k = 1 \/ text[k - 1] \notin WordCharacters
          /\ k + Len(word) - 1 <= Len(text)
          /\ toLowerCase(SubSeq(text, k, k + Len(word) - 1)) = word
          /\ \A j \in (k + Len(word))..Len(text) : text[j] \in Whitespace

detectIncompleteSentences(transcription) ==
    IF Falsy(transcription) THEN 0
    ELSE LET sentences == SelectSeq(split(transcription, {".", "!", "?"}),
                                 LAMBDA sentence : Len(trim(sentence)) > 0)
             incomplete == SelectSeq(sentences,
                                  LAMBDA sentence :
                                     \/ Len(split(sentence, Whitespace)) < 3
                                     \/ endsWithConjunction(trim(sentence)))
         IN  Len(incomplete)

ApplyDetectIncompleteSentences ==
    /\ pc = "idle"
    /\ applied = <<>>
    /\ \E transcription \in {NoText} \cup Texts({"s", "o", " ", "."}, MaxText + 2) :
         applied' = <<Application("detectIncompleteSentences", <<transcription>>,
                                  detectIncompleteSentences(transcription))>>
    /\ UNCHANGED <<env, ui, state, heap, runs, pipelineVars>>

vagueWords ==
    {<<"t", "h", "i", "n", "g">>,
     <<"s", "t", "u", "f", "f">>,
     <<"s", "o", "m", "e", "t", "h", "i", "n", "g">>,
     <<"s", "o", "m", "e", "w", "h", "e", "r", "e">>,
     <<"s", "o", "m", "e", "h", "o", "w">>,
     <<"w", "h", "a", "t", "e", "v", "e", "r">>,
     <<"w", "h", "a", "t", "s", "o", "e", "v", "e", "r">>}

countVagueWords(transcription) ==
    IF Falsy(transcription) THEN 0
    ELSE LET words == split(toLowerCase(transcription), Whitespace)
         IN  Len(SelectSeq(words, LAMBDA word : word \in vagueWords))

\* /\b(that thing|you know|like|what's it called|what do you call it)\b/gi and
\* /\bI (can't remember|forgot|don't recall)\b/gi, the alternatives in their order
lostWordsPatterns ==
    <<<<<<"t", "h", "a", "t", " ", "t", "h", "i", "n", "g">>,
        <<"y", "o", "u", " ", "k", "n", "o", "w">>,
        <<"l", "i", "k", "e">>,
        <<"w", "h", "a", "t", "'", "s", " ", "i", "t", " ", "c", "a", "l", "l", "e", "d">>,
        <<"w", "h", "a", "t", " ", "d", "o", " ", "y", "o", "u", " ", "c", "a", "l", "l", " ", "i", "t">>>>,
      <<<<"I", " ", "c", "a", "n", "'", "t", " ", "r", "e", "m", "e", "m", "b", "e", "r">>,
        <<"I", " ", "f", "o", "r", "g", "o", "t">>,
        <<"I", " ", "d", "o", "n", "'", "t", " ", "r", "e", "c", "a", "l", "l">>>>>>

\* \b at the gap before position k: a word character on one side only
wordBoundary(text, k) ==
    (k > 1 /\ text[k - 1] \in WordCharacters) # (k <= Len(text) /\ text[k] \in WordCharacters)

\* the length of the match of the pattern that begins at k, 0 if none: the first
\* alternative, ignoring case, that stands between two word boundaries
patternAt(text, k, pattern) ==
    LET fits == {a \in 1..Len(pattern) :
                   /\ k + Len(pattern[a]) - 1 <= Len(text)
                   /\ toLowerCase(SubSeq(text, k, k + Len(pattern[a]) - 1))
                        = toLowerCase(pattern[a])
                   /\ wordBoundary(text, k)
                   /\ wordBoundary(text, k + Len(pattern[a]))}
    IN  IF fits = {} THEN 0
        ELSE Len(pattern[CHOOSE a \in fits : \A x \in fits : a <= x])

\* transcription.match(pattern) with the g flag
RECURSIVE patternMatches(_, _, _)
patternMatches(text, k, pattern) ==
    IF k > Len(text) THEN <<>>
    ELSE IF patternAt(text, k, pattern) > 0
         THEN <<SubSeq(text, k, k + patternAt(text, k, pattern) - 1)>>
                 \o patternMatches(text, k + patternAt(text, k, pattern), pattern)
         ELSE patternMatches(text, k + 1, pattern)

countLostWords(transcription) ==
    IF Falsy(transcription) THEN 0
    ELSE Len(patternMatches(transcription, 1, lostWordsPatterns[1]))
           + Len(patternMatches(transcription, 1, lostWordsPatterns[2]))

\* 0.1 + Math.random() * 0.2, in millionths; the transcription is not read
calculateSemanticAnomaly(transcription, r) == 100000 + r * 200

\* transcriptions of words of the two lexicons, and none
LexiconTexts ==
    {NoText, <<>>,
     <<"t", "h", "i", "n", "g">>,
     <<"T", "h", "i", "n", "g", " ", "s", "t", "u", "f", "f">>,
     <<"t", "h", "i", "n", "g", "s">>,
     <<"l", "i", "k", "e">>,
     <<"I", " ", "f", "o", "r", "g", "o", "t">>,
     <<"a", "l", "i", "k", "e">>,
     <<"y", "o", "u", " ", "k", "n", "o", "w", " ", "l", "i", "k", "e">>}

ApplyCountVagueWords ==
    /\ pc = "idle"
    /\ applied = <<>>
    /\ \E transcription \in LexiconTexts :
         applied' = <<Application("countVagueWords", <<transcription>>,
                                  countVagueWords(transcription))>>
    /\ UNCHANGED <<env, ui, state, heap, runs, pipelineVars>>

ApplyCountLostWords ==
    /\ pc = "idle"
    /\ applied = <<>>
    /\ \E transcription \in LexiconTexts :
         applied' = <<Application("countLostWords", <<transcription>>,
                                  countLostWords(transcription))>>
    /\ UNCHANGED <<env, ui, state, heap, runs, pipelineVars>>

ApplyCalculateSemanticAnomaly ==
    /\ pc = "idle"
    /\ applied = <<>>
    /\ \E transcription \in LexiconTexts, r \in {0, 500, 999} :
         applied' = <<Application("calculateSemanticAnomaly", <<transcription>>,
                                  calculateSemanticAnomaly(transcription, r))>>
    /\ UNCHANGED <<env, ui, state, heap, runs, pipelineVars>>

\* Math.min, Math.max
min(a, b) == IF a <= b THEN a ELSE b

max(a, b) == IF a >= b THEN a ELSE b

\* the issues pushed in the order of the three tests
issuesOf(rnd) ==
    (IF rnd[1] > 800 THEN <<"low_snr">> ELSE <<>>)
       \o (IF rnd[2] > 900 THEN <<"clipping">> ELSE <<>>)
       \o (IF rnd[3] > 950 THEN <<"distortion">> ELSE <<>>)

\* the score that looks at no issue: qualityScore: 0.95
checkAudioQualityFlat(audioFile, rnd) ==
    [success |-> TRUE, data |-> [qualityScore |-> 950000, issues |-> issuesOf(rnd)]]

\* qualityScore in millionths
checkAudioQuality(audioFile, rnd) ==
    LET issues == issuesOf(rnd) IN
    [success |-> TRUE,
     data |-> [qualityScore |-> min(1000000, max(0, 950000 - Len(issues) * 200000)),
               issues |-> issues]]

\* three draws of Math.random(), below and above each threshold
QualityDraws == [1..3 -> {0, 850, 920, 999}]

ApplyCheckAudioQuality ==
    /\ pc = "idle"
    /\ applied = <<>>
    /\ \E rnd \in QualityDraws :
         applied' = <<Application("checkAudioQuality", <<AudioFile("a.wav"), rnd>>,
                                  checkAudioQuality(AudioFile("a.wav"), rnd))>>
    /\ UNCHANGED <<env, ui, state, heap, runs, pipelineVars>>

\* durations in seconds
Durations == {0 - 30, 0, 30, 60, 90}

ApplyCalculateSpeechRate ==
    /\ pc = "idle"
    /\ applied = <<>>
    /\ \E transcription \in {NoText} \cup Texts({"a", "b", " "}, MaxText + 1),
          durationInSeconds \in Durations :
         applied' = <<Application("calculateSpeechRate",
                                  <<transcription, durationInSeconds>>,
                                  calculateSpeechRate(transcription, durationInSeconds))>>
    /\ UNCHANGED <<env, ui, state, heap, runs, pipelineVars>>

---------------------------------------------------------------------------
(* The mock results of the context and of the backend client *)

SampleTranscription ==
    "This is a sample transcription of speech that would normally be generated by the Wav2Vec2 model. In a real application, this would contain the actual transcribed content from the audio file."

\* the eleven draws of Math.random() one mock result makes, all low or all high
MockDraws == {[k \in 1..11 |-> r] : r \in {0, 999}}

\* the object both generators build for the file at index, from its draws
mockResult(fileName, index, rnd) ==
    LET isAtRisk == rnd[1] > 700 IN
    [id |-> "result-" \o ToString(index),
     file_name |-> fileName,
     risk_status |-> IF isAtRisk THEN "At Risk" ELSE "Normal",
     confidence |-> 700000 + rnd[2] * 250,
     key_indicators |->
       IF isAtRisk
       THEN SubSeq(<<"Hesitation", "Semantic Anomaly", "Slow Speech Rate">>,
                   1, (rnd[3] * 3) \div 1000 + 1)
       ELSE <<"Normal Speech Pattern">>,
     features |->
       [hesitation_count    |-> (rnd[4] * 10) \div 1000,
        pause_count         |-> (rnd[5] * 8) \div 1000,
        speech_rate         |-> 2 * 1000000 + rnd[6] * 2 * 1000,
        pitch_variability   |-> 800 * 1000000 + rnd[7] * 300 * 1000,
        semantic_anomaly    |-> 100000 + rnd[8] * 200,
        vague_word_count    |-> (rnd[9] * 3) \div 1000,
        incomplete_sentence |-> IF rnd[10] > 800 THEN 1 ELSE 0,
        lost_words          |-> (rnd[11] * 5) \div 1000],
     transcription |-> SampleTranscription,
     analysis_notes |->
       IF isAtRisk
       THEN <<"Higher than normal hesitation frequency detected",
              "Semantic coherence is below average",
              "Speech patterns show potential cognitive indicators">>
       ELSE <<"Speech patterns within normal range",
              "No significant cognitive indicators detected">>]

\* the file names generateMockResults reports on
mockFiles(st) ==
    IF Len(st.audioFiles) > 0
    THEN [k \in 1..Len(st.audioFiles) |-> st.audioFiles[k].name]
    ELSE <<"sample1.wav", "sample2.wav", "sample3.wav", "sample4.wav", "sample5.wav">>

generateMockResults(st, draws) ==
    [k \in 1..Len(mockFiles(st)) |-> mockResult(mockFiles(st)[k], k - 1, draws[k])]

getAnalysisResults(taskId, draws) ==
    [success |-> TRUE,
     results |-> [k \in 1..5 |->
                    mockResult("sample_" \o ToString(k) \o ".wav", k - 1, draws[k])]]

\* generateMockResults() in a context whose audio files are those of a batch
ApplyGenerateMockResults ==
    /\ pc = "idle"
    /\ applied = <<>>
    /\ \E files \in env.batches :
         LET st == analysisReducer(state, [type |-> "SET_AUDIO_FILES", payload |-> files])
         IN  \E draws \in [1..Len(mockFiles(st)) -> MockDraws] :
                applied' = <<Application("generateMockResults", <<st.audioFiles>>,
                                         generateMockResults(st, draws))>>
    /\ UNCHANGED <<env, ui, state, heap, runs, pipelineVars>>

ApplyGetAnalysisResults ==
    /\ pc = "idle"
    /\ applied = <<>>
    /\ \E draws \in [1..5 -> MockDraws] :
         applied' = <<Application("getAnalysisResults", <<"task-1">>,
                                  getAnalysisResults("task-1", draws))>>
    /\ UNCHANGED <<env, ui, state, heap, runs, pipelineVars>>

---------------------------------------------------------------------------
(* The classifiers called with draws on both sides of their thresholds *)

\* Math.random() for isAtRisk (> 0.7) and for the number of indicators (thirds)
LabelDraws == {0, 700, 701, 999}

IndicatorDraws == {0, 333, 334, 666, 667, 999}

ApplyRunAnalysisModelAtThresholds ==
    /\ pc = "idle"
    /\ applied = <<>>
    /\ \E drawn \in env.featureDraws, label \in LabelDraws, count \in IndicatorDraws :
         LET features == extractFeatures(AudioFile("a.wav"), PlaceholderTranscription,
                                         drawn, NoError).data.features
         IN  applied' = <<Application("runAnalysisModel", <<features, initialSettings>>,
                                      runAnalysisModel(features, initialSettings,
                                                       <<label, 500, count>>, NoError))>>
    /\ UNCHANGED <<env, ui, state, heap, runs, pipelineVars>>

ApplyGenerateMockResultsAtThresholds ==
    /\ pc = "idle"
    /\ applied = <<>>
    /\ \E name \in FileNames, label \in LabelDraws, count \in IndicatorDraws :
         LET st == analysisReducer(state, [type |-> "SET_AUDIO_FILES",
                                           payload |-> <<AudioFile(name)>>])
             rnd == [k \in 1..11 |-> IF k = 1 THEN label ELSE IF k = 3 THEN count ELSE 500]
         IN  applied' = <<Application("generateMockResults", <<st.audioFiles>>,
                                      generateMockResults(st, <<rnd>>))>>
    /\ UNCHANGED <<env, ui, state, heap, runs, pipelineVars>>

---------------------------------------------------------------------------
(* The components' own state: AnalysisSettings and AudioUploader *)

\* useState({...}) of the settings panel
panelSettings ==
    [modelType |-> "isolation_forest",
     contamination |-> 200000,
     featureWeights |-> [hesitation_count    |-> 1000000,
                         pause_count         |-> 1000000,
                         speech_rate         |-> 1000000,
                         pitch_variability   |-> 1000000,
                         semantic_anomaly    |-> 1000000,
                         vague_word_count    |-> 1000000,
                         incomplete_sentence |-> 1000000,
                         lost_words          |-> 1000000],
     transcriptionModel |-> "wav2vec2"]

\* useState(null) of currentPlayingIndex
NoIndex == -1

\* the panel's settings; the uploader's files, its currentPlayingIndex, and the
\* audio elements that are playing, by the id of their file
initialUi ==
    [settings |-> panelSettings,
     files |-> <<>>,
     currentPlayingIndex |-> NoIndex,
     playing |-> {}]

\* parseFloat of the text of a weight slider (min 0, max 2, step 0.1)
parseFloat(text) ==
    CASE text = "0" -> 0
      [] text = "0.5" -> 500000
      [] text = "1.5" -> 1500000
      [] text = "2" -> 2000000

\* the text of the contamination slider (min 0.01, max 0.5), which the panel keeps
\* as it is; written as the number it spells
ContaminationTexts == {10000, 300000, 500000}

WeightTexts == {"0", "0.5", "2"}

WeightSliders == {"hesitation_count", "lost_words"}

\* the argument built from the settings of the first render only
handleChangePayloadAtMount(settingsOfRender, name, value) ==
    Spread(panelSettings, name :> value)

\* the argument of onSettingsChange in handleChange: {...settings, [name]: value}
handleChangePayload(settingsOfRender, name, value) ==
    Spread(settingsOfRender, name :> value)

\* the argument of onSettingsChange in handleFeatureWeightChange
handleFeatureWeightChangePayload(settingsOfRender, feature, value) ==
    Spread(settingsOfRender,
           [featureWeights |-> Spread(settingsOfRender.featureWeights,
                                      feature :> parseFloat(value))])

\* onSettingsChange(payload): handleSettingsChange of the Dashboard, updateSettings
SettingsChanged(payload) ==
    LET action == [type |-> "UPDATE_SETTINGS", payload |-> payload] IN
    /\ state' = analysisReducer(state, action)
    /\ heap' = heapAfter(state, heap, action)

\* handleChange(e) of a select or of the contamination slider, e.target = {name, value}:
\* setSettings(prev => ({...prev, [name]: value})), then onSettingsChange
Changed(name, value) ==
    /\ ui' = [ui EXCEPT !.settings = Spread(ui.settings, name :> value)]
    /\ SettingsChanged(handleChangePayload(ui.settings, name, value))

HandleChange ==
    /\ \/ \E value \in {"isolation_forest", "kmeans", "both"} : Changed("modelType", value)
       \/ \E value \in ContaminationTexts : Changed("contamination", value)
       \/ \E value \in {"wav2vec2", "whisper"} : Changed("transcriptionModel", value)
    /\ UNCHANGED <<env, applied, runs, pipelineVars>>

\* handleFeatureWeightChange(feature, e.target.value) of a weight slider
HandleFeatureWeightChange ==
    /\ \E feature \in WeightSliders, value \in WeightTexts :
         /\ ui' = [ui EXCEPT !.settings.featureWeights =
                                Spread(ui.settings.featureWeights,
                                       feature :> parseFloat(value))]
         /\ SettingsChanged(handleFeatureWeightChangePayload(ui.settings, feature, value))
    /\ UNCHANGED <<env, applied, runs, pipelineVars>>

\* the ids the uploader gives its files; one is free whenever a file can be added
FileIds == {"file-" \o ToString(n) : n \in 1..MaxFiles}

\* the entry handleFileInputChange pushes for an audio file
UploadedFile(id, name) == [id |-> id, name |-> name, status |-> "ready", progress |-> 0]

\* setFiles(newFiles); onAudioUploaded(newFiles), the Dashboard's setAudioFiles
FilesChanged(newFiles) ==
    state' = analysisReducer(state, [type |-> "SET_AUDIO_FILES", payload |-> newFiles])

\* handleFileInputChange(e) with one audio file chosen
HandleFileInputChange ==
    /\ Len(ui.files) < MaxFiles
    /\ \E id \in FileIds, name \in FileNames :
         /\ \A k \in 1..Len(ui.files) : ui.files[k].id # id
         /\ ui' = [ui EXCEPT !.files = Append(ui.files, UploadedFile(id, name))]
         /\ FilesChanged(Append(ui.files, UploadedFile(id, name)))
    /\ UNCHANGED <<env, applied, runs, heap, pipelineVars>>

\* removeFile(id): files.filter(file => file.id !== id); the item's audio element
\* leaves the document with it, which pauses it; currentPlayingIndex is not written
RemoveFile ==
    /\ \E id \in {ui.files[k].id : k \in 1..Len(ui.files)} :
         LET newFiles == SelectSeq(ui.files, LAMBDA file : file.id # id) IN
         /\ ui' = [ui EXCEPT !.files = newFiles, !.playing = @ \ {id}]
         /\ FilesChanged(newFiles)
    /\ UNCHANGED <<env, applied, runs, heap, pipelineVars>>

\* togglePlayPause(file.id, index), the onClick of an item's play button
TogglePlayPause ==
    /\ \E index \in 0..(Len(ui.files) - 1) :
         LET id == ui.files[index + 1].id
             current == ui.currentPlayingIndex
         IN  IF current = index
             THEN ui' = [ui EXCEPT !.playing = @ \ {id},
                                   !.currentPlayingIndex = NoIndex]
             ELSE LET paused == IF current # NoIndex /\ current < Len(ui.files)
                                THEN ui.playing \ {ui.files[current + 1].id}
                                ELSE ui.playing
                  IN  ui' = [ui EXCEPT !.playing = paused \cup {id},
                                       !.currentPlayingIndex = index]
    /\ UNCHANGED <<env, applied, runs, state, heap, pipelineVars>>

\* onEnded of an audio element that was playing: setCurrentPlayingIndex(null)
PlaybackEnded ==
    /\ \E id \in ui.playing :
         ui' = [ui EXCEPT !.playing = @ \ {id}, !.currentPlayingIndex = NoIndex]
    /\ UNCHANGED <<env, applied, runs, state, heap, pipelineVars>>

---------------------------------------------------------------------------
(* The reducer, one dispatch after another *)

\* dispatch(action): the state and the heap after it, and the call as made
Dispatched(action) ==
    /\ state' = analysisReducer(state, action)
    /\ heap' = heapAfter(state, heap, action)
    /\ applied' = <<Application("analysisReducer", <<state, action>>,
                                analysisReducer(state, action))>>

\* any action dispatched to the context, the unknown type among them
Dispatch ==
    /\ pc = "idle"
    /\ \/ Dispatched([type |-> "SET_DATASET_PATH", payload |-> "/data"])
       \/ \E files \in env.batches :
             Dispatched([type |-> "SET_AUDIO_FILES", payload |-> files])
       \/ Dispatched([type |-> "UPDATE_SETTINGS", payload |-> [modelType |-> "kmeans"]])
       \/ Dispatched([type |-> "START_PROCESSING"])
       \/ Dispatched([type |-> "UPDATE_PROCESSING", payload |-> [progress |-> Num(50)]])
       \/ \E draws \in MockDraws :
             Dispatched([type |-> "SET_RESULTS",
                         payload |-> <<mockResult("a.wav", 0, draws)>>])
       \/ \E message \in env.thrown \ {NoError} :
             Dispatched([type |-> "SET_ERROR", payload |-> message])
       \/ Dispatched([type |-> "RESET"])
       \/ Dispatched([type |-> "SET_NOTHING", payload |-> "/data"])
    /\ UNCHANGED <<env, ui, runs, pipelineVars>>

---------------------------------------------------------------------------
(* The simulated run of the context: startProcessing and its timers.  A run  *)
(* is the locals of one call of simulateProcessing (currentStep, progress),  *)
(* the timer it has pending, and the state of the render whose               *)
(* startProcessing was called, which is the one generateMockResults reads    *)

DatasetPaths == {"/data"}

\* the history's note of a call of startProcessing: state.audioFiles as it was then
StartEntry(files) == [kind |-> "start", files |-> files]

steps ==
    <<[step |-> 1, name |-> "Preprocessing Audio"],
      [step |-> 2, name |-> "Transcribing Audio"],
      [step |-> 3, name |-> "Extracting Features"],
      [step |-> 4, name |-> "Training Model"],
      [step |-> 5, name |-> "Generating Results"]>>

\* the functions memoised at the first render: the state they read is initialState
simulateProcessingAtMount(st) ==
    [currentStep |-> 0, progress |-> 0, timer |-> "none", closure |-> initialState]

\* simulateProcessing() as it is entered: let currentStep = 0, no timer yet
simulateProcessing(st) ==
    [currentStep |-> 0, progress |-> 0, timer |-> "none", closure |-> st]

\* the callback leaving its interval running
intervalCallbackUncleared(run) == [run EXCEPT !.progress = @ + 5]

\* the callback going on by two steps: currentStep += 2
intervalCallbackSkipping(run) ==
    LET progress == run.progress + 5 IN
    IF progress >= 100
    THEN [run EXCEPT !.progress = progress, !.currentStep = @ + 2, !.timer = "timeout"]
    ELSE [run EXCEPT !.progress = progress]

\* the callback of setInterval(..., 200): the run after it
intervalCallback(run) ==
    LET progress == run.progress + 5 IN
    IF progress >= 100
    THEN [run EXCEPT !.progress = progress, !.currentStep = @ + 1, !.timer = "timeout"]
    ELSE [run EXCEPT !.progress = progress]

\* processStep(): the run after it
processStepRun(run) ==
    IF run.currentStep >= Len(steps)
    THEN [run EXCEPT !.timer = "none"]
    ELSE [run EXCEPT !.progress = 0, !.timer = "interval"]

\* processStep() returning after the last step without setResults
processStepUnfinished(st, run, draws) ==
    IF run.currentStep >= Len(steps)
    THEN st
    ELSE LET step == steps[run.currentStep + 1] IN
         updateProcessing(st, [currentStep |-> step.step,
                               stepName |-> step.name,
                               progress |-> Num(0)])

\* processStep(): the state after what it dispatches
processStep(st, run, draws) ==
    IF run.currentStep >= Len(steps)
    THEN analysisReducer(st, [type |-> "SET_RESULTS",
                              payload |-> generateMockResults(run.closure, draws)])
    ELSE LET step == steps[run.currentStep + 1] IN
         updateProcessing(st, [currentStep |-> step.step,
                               stepName |-> step.name,
                               progress |-> Num(0)])

\* setDatasetPath(path), as the Dashboard calls it for a path the form accepted
SetDatasetPath ==
    /\ \E path \in DatasetPaths :
         state' = analysisReducer(state, [type |-> "SET_DATASET_PATH", payload |-> path])
    /\ UNCHANGED <<env, ui, applied, runs, heap, pipelineVars>>

\* setAudioFiles(files), as the Dashboard calls it for the uploader's list
SetAudioFiles ==
    /\ \E files \in env.batches :
         state' = analysisReducer(state, [type |-> "SET_AUDIO_FILES", payload |-> files])
    /\ UNCHANGED <<env, ui, applied, runs, heap, pipelineVars>>

\* startProcessing(): dispatch START_PROCESSING, then simulateProcessing(),
\* whose first processStep() runs before it returns
StartProcessing ==
    /\ LET run == simulateProcessing(state)
           started == analysisReducer(state, [type |-> "START_PROCESSING"])
       IN  /\ state' = processStep(started, run, <<>>)
           /\ runs' = Append(runs, processStepRun(run))
    /\ trace' = Append(trace, StartEntry(state.audioFiles))
    /\ UNCHANGED <<env, ui, applied, heap, pc, audioFiles, settings, i, results,
                   transcriptionResult, featuresResult, pending, outcome, inflight,
                   staleRead>>

canStartAnalysis(st) == st.datasetPath # "" \/ Len(st.audioFiles) > 0

\* the button rendered without looking at isProcessing
StartAvailableWhileProcessing(st) ==
    /\ canStartAnalysis(st)
    /\ st.results = NoResults

\* the Start Analysis button is rendered
StartAvailable(st) ==
    /\ canStartAnalysis(st)
    /\ ~st.processing.isProcessing
    /\ st.results = NoResults

\* handleStartAnalysis, the onClick of the Start Analysis button
HandleStartAnalysis == StartAvailable(state) /\ StartProcessing

\* a run's interval fires
Tick ==
    /\ \E k \in DOMAIN runs :
         /\ runs[k].timer = "interval"
         /\ state' = updateProcessing(state,
                         [progress |-> Num(intervalCallback(runs[k]).progress)])
         /\ runs' = [runs EXCEPT ![k] = intervalCallback(runs[k])]
    /\ UNCHANGED <<env, ui, applied, heap, pipelineVars>>

\* a run's setTimeout(processStep, 500) fires
ProcessStep ==
    /\ \E k \in DOMAIN runs :
         /\ runs[k].timer = "timeout"
         /\ \E draws \in (IF runs[k].currentStep >= Len(steps)
                          THEN [1..Len(mockFiles(runs[k].closure)) -> MockDraws]
                          ELSE {<<>>}) :
              state' = processStep(state, runs[k], draws)
         /\ runs' = [runs EXCEPT ![k] = processStepRun(runs[k])]
    /\ UNCHANGED <<env, ui, applied, heap, pipelineVars>>

---------------------------------------------------------------------------
(* Specifications *)

Start ==
    /\ state = initialState
    /\ heap = [r \in Refs |-> IF r = InitialRef THEN initialSettings ELSE Undefined]
    /\ pc = "idle"
    /\ audioFiles = <<>>
    /\ settings = Undefined
    /\ i = 0
    /\ results = <<>>
    /\ transcriptionResult = Undefined
    /\ featuresResult = Undefined
    /\ pending = Undefined
    /\ outcome = Undefined
    /\ inflight = {}
    /\ staleRead = FALSE
    /\ trace = <<>>
    /\ applied = <<>>
    /\ runs = <<>>
    /\ ui = initialUi

\* one run of the pipeline, on every input
Init == Start /\ env = WideEnv

Next ==
    \/ CallPipeline
    \/ ResumePreprocess
    \/ ResumeTranscribe
    \/ ResumeExtract
    \/ ResumeModel

Spec == Init /\ [][Next]_vars

\* one run of the pipeline while the application dispatches settings changes
InitSettings == Start /\ env = NarrowEnv

NextSettings == Next \/ UpdateSettings

SpecSettings == InitSettings /\ [][NextSettings]_vars

\* one run of the pipeline while the application resets the context
InitCancel == Start /\ env = NarrowEnv

NextCancel == Next \/ Reset

SpecCancel == InitCancel /\ [][NextCancel]_vars

\* the functions called directly, or one run of the pipeline
InitFunctions == Start /\ env = WideEnv

RunPipeline == applied = <<>> /\ Next

NextFunctions ==
    \/ RunPipeline
    \/ ApplyCalculateRiskScore
    \/ ApplyRunAnalysisModel
    \/ ApplyRunAnalysisModelAgain
    \/ ApplyGenerateMockResults
    \/ ApplyGetAnalysisResults

SpecFunctions == InitFunctions /\ [][NextFunctions]_vars

\* the functions of featureUtils.js called directly, each once
InitUtils == Start /\ env = WideEnv

NextUtils ==
    \/ ApplyCalculateSpeechRate
    \/ ApplyCountHesitations
    \/ ApplyCountPauses
    \/ ApplyDetectIncompleteSentences
    \/ ApplyCountVagueWords
    \/ ApplyCountLostWords
    \/ ApplyCalculateSemanticAnomaly
    \/ ApplyCheckAudioQuality

SpecUtils == InitUtils /\ [][NextUtils]_vars

\* the Dashboard's user and the timers
InitDashboard == Start /\ env = NarrowEnv

NextDashboard ==
    \/ SetDatasetPath
    \/ SetAudioFiles
    \/ HandleStartAnalysis
    \/ Tick
    \/ ProcessStep

SpecDashboard == InitDashboard /\ [][NextDashboard]_vars

\* the same, every pending timer firing in the end
FairDashboard == SpecDashboard /\ WF_vars(Tick) /\ WF_vars(ProcessStep)

\* the first run begun from the Dashboard, with reset() called at any time
InitReset == Start /\ env = NarrowEnv

FirstStartAnalysis == runs = <<>> /\ HandleStartAnalysis

NextReset ==
    \/ SetDatasetPath
    \/ SetAudioFiles
    \/ FirstStartAnalysis
    \/ Reset
    \/ Tick
    \/ ProcessStep

SpecReset == InitReset /\ [][NextReset]_vars

\* the producers of results: the pipeline, the mock generators, the model
InitLabels == Start /\ env = WideEnv

NextLabels ==
    \/ NextFunctions
    \/ ApplyRunAnalysisModelAtThresholds
    \/ ApplyGenerateMockResultsAtThresholds

SpecLabels == InitLabels /\ [][NextLabels]_vars

\* the settings panel in use
InitPanel == Start /\ env = NarrowEnv

NextPanel ==
    \/ HandleChange
    \/ HandleFeatureWeightChange

SpecPanel == InitPanel /\ [][NextPanel]_vars

\* the uploader in use
InitUploader == Start /\ env = NarrowEnv

NextUploader ==
    \/ HandleFileInputChange
    \/ RemoveFile
    \/ TogglePlayPause
    \/ PlaybackEnded

SpecUploader == InitUploader /\ [][NextUploader]_vars

\* one call of the pipeline, well formed or not
InitHostile == Start /\ env = WideEnv

NextHostile ==
    \/ CallPipelineHostile
    \/ CallPipeline
    \/ ResumePreprocess
    \/ ResumeTranscribe
    \/ ResumeExtract
    \/ ResumeModel

SpecHostile == InitHostile /\ [][NextHostile]_vars

\* the reducer alone, under any sequence of dispatches
InitReducer == Start /\ env = NarrowEnv

NextReducer == Dispatch

SpecReducer == InitReducer /\ [][NextReducer]_vars

---------------------------------------------------------------------------
(* Reading the history *)

Positions == 1..Len(trace)

IsProgress(p, f) == trace[p].kind = "progress" /\ trace[p].file = f

IsEntry(p, f, s) ==
    /\ IsProgress(p, f)
    /\ "currentStep" \in DOMAIN trace[p].payload
    /\ trace[p].payload.currentStep = s

IsInvoke(p, f, fn) ==
    trace[p].kind = "invoke" /\ trace[p].file = f /\ trace[p].fn = fn

IsSettle(p, f, fn) ==
    trace[p].kind = "settle" /\ trace[p].file = f /\ trace[p].fn = fn

IsFailure(p) == trace[p].kind = "settle" /\ ~trace[p].result.success

StageFn(s) ==
    CASE s = 1 -> "preprocessAudio"
      [] s = 2 -> "transcribeAudio"
      [] s = 3 -> "extractFeatures"
      [] s = 4 -> "runAnalysisModel"

FileIndices == 0..(Len(audioFiles) - 1)

\* the progress payloads of file f, in order
PayloadsOf(f) ==
    LET own == SelectSeq(trace, LAMBDA e : e.kind = "progress" /\ e.file = f)
    IN  [k \in 1..Len(own) |-> own[k].payload]

\* the steps file f entered, in order
StepsEntered(f) ==
    LET entries == SelectSeq(PayloadsOf(f), LAMBDA q : "currentStep" \in DOMAIN q)
    IN  [k \in 1..Len(entries) |-> entries[k].currentStep]

IsPrefix(a, b) == Len(a) <= Len(b) /\ a = SubSeq(b, 1, Len(a))

Finished == pc = "done"

---------------------------------------------------------------------------
(* C1: once a stage of file k has reported failure, that report is the last *)
(* thing the run did: no stage function is invoked and no progress event is *)
(* emitted after it, for file k or any later file, and the run has returned *)
(* success = false with an error text that ends with the stage's own error. *)
FailFast ==
    \A p \in Positions :
        IsFailure(p) =>
            /\ p = Len(trace)
            /\ Finished
            /\ outcome.success = FALSE
            /\ Len(outcome.error) > Len(trace[p].result.error)
            /\ SubSeq(outcome.error,
                      Len(outcome.error) - Len(trace[p].result.error) + 1,
                      Len(outcome.error)) = trace[p].result.error
            /\ trace[p].result.error[1] \in
                 {"Error preprocessing audio: ", "Error transcribing audio: ",
                  "Error extracting features: ", "Error running analysis model: "}

\* the second file of a batch failed in feature extraction, after the first succeeded
FailFastWitness ==
    /\ Finished
    /\ Len(trace) > 0
    /\ IsFailure(Len(trace))
    /\ IsSettle(Len(trace), 1, "extractFeatures")
    /\ outcome.success = FALSE

(* C2: every file enters the steps 1, 2, 3, 4, 5 in that order, none skipped *)
(* and none twice, and enters step n+1 only after the stage of step n has    *)
(* reported success for that file.                                           *)
StageOrder ==
    /\ \A f \in FileIndices : IsPrefix(StepsEntered(f), <<1, 2, 3, 4, 5>>)
    /\ \A p \in Positions :
         \A f \in FileIndices :
            \A s \in 2..5 :
               IsEntry(p, f, s) =>
                  \E q \in 1..(p - 1) :
                     IsSettle(q, f, StageFn(s - 1)) /\ trace[q].result.success
    /\ \A p \in Positions :
         trace[p].kind \in {"progress", "invoke", "settle"} => trace[p].file \in FileIndices

\* both files of a batch of two went through all five steps
StageOrderWitness ==
    /\ Finished
    /\ Len(audioFiles) = 2
    /\ StepsEntered(0) = <<1, 2, 3, 4, 5>>
    /\ StepsEntered(1) = <<1, 2, 3, 4, 5>>

(* C4: at most one stage call is in progress at any time, none while the run *)
(* is not running, and a stage of file f+1 is invoked only after file f was  *)
(* compiled (a failed file ends the run: see C1).                            *)
SequentialStages ==
    /\ Cardinality(inflight) <= 1
    /\ pc \in {"idle", "done"} => inflight = {}
    /\ \A p \in Positions :
         \A f \in FileIndices :
            (trace[p].kind = "invoke" /\ trace[p].file = f /\ f > 0) =>
               \E q \in 1..(p - 1) : IsEntry(q, f - 1, 5)

\* the second file's transcription is in progress, the first file is compiled
SequentialStagesWitness ==
    /\ pc = "transcribe"
    /\ i = 1
    /\ inflight = {<<1, "transcribeAudio">>}
    /\ StepsEntered(0) = <<1, 2, 3, 4, 5>>

---------------------------------------------------------------------------
Zero == [num |-> 0, den |-> 1]

Hundred == [num |-> 100, den |-> 1]

\* stage s of file f has ended: a stage function reported success, or (step 5) the
\* record was pushed, which is when the step's only event is emitted
Completed(f, s) ==
    IF s = 5
    THEN \E q \in Positions : IsEntry(q, f, 5)
    ELSE \E q \in Positions : IsSettle(q, f, StageFn(s)) /\ trace[q].result.success

(* C3: for every file and every step s in 1..5 the event that enters step s  *)
(* has progress 0, and once the step has completed an event of that file     *)
(* with progress 100 follows before any event of another step.               *)
StageEventsResetAndComplete ==
    \A p \in Positions :
       \A f \in FileIndices :
          \A s \in 1..5 :
             IsEntry(p, f, s) =>
                /\ trace[p].payload.progress = Zero
                /\ Completed(f, s) =>
                      \E q \in (p + 1)..Len(trace) :
                         /\ IsProgress(q, f)
                         /\ trace[q].payload.progress = Hundred
                         /\ \A r \in (p + 1)..q :
                               trace[r].kind = "progress" =>
                                  "currentStep" \notin DOMAIN trace[r].payload

(* C5: runAnalysisModel is called for no file before every file of the batch *)
(* has had its features extracted, and what it is given holds the feature    *)
(* vector of every file.                                                     *)
BatchBarrier ==
    \A p \in Positions :
       (trace[p].kind = "invoke" /\ trace[p].fn = "runAnalysisModel") =>
          \A f \in FileIndices :
             /\ \E q \in 1..(p - 1) :
                   IsSettle(q, f, "extractFeatures") /\ trace[q].result.success
             /\ \A q \in 1..(p - 1) :
                   (IsSettle(q, f, "extractFeatures") /\ trace[q].result.success) =>
                      trace[q].result.data.features = trace[p].args[1]

\* what the stage of step s returned for file f
Returned(f, s) ==
    LET q == CHOOSE q \in Positions : IsSettle(q, f, StageFn(s)) IN trace[q].result

NoFailure == \A p \in Positions : ~IsFailure(p)

(* C6: a finished run in which no stage failed returned success with one     *)
(* record per input file, in input order: record k has id "result-<k>", the  *)
(* name of file k, and the features and the transcription the stages         *)
(* returned for file k.                                                      *)
ResultsInOrder ==
    (Finished /\ NoFailure) =>
       /\ outcome.success = TRUE
       /\ Len(outcome.data) = Len(audioFiles)
       /\ \A f \in FileIndices :
             /\ DOMAIN outcome.data[f + 1] =
                  {"id", "file_name", "risk_status", "confidence", "key_indicators",
                   "features", "transcription", "analysis_notes"}
             /\ outcome.data[f + 1].id = "result-" \o ToString(f)
             /\ outcome.data[f + 1].file_name = audioFiles[f + 1].name
             /\ outcome.data[f + 1].features = Returned(f, 3).data.features
             /\ outcome.data[f + 1].transcription = Returned(f, 2).data.transcription
             /\ outcome.data[f + 1].risk_status = Returned(f, 4).data.risk_status

\* two files of different names and different features, both compiled
ResultsInOrderWitness ==
    /\ Finished
    /\ NoFailure
    /\ Len(audioFiles) = 2
    /\ audioFiles[1].name # audioFiles[2].name
    /\ Returned(0, 3).data.features # Returned(1, 3).data.features
    /\ Len(outcome.data) = 2

\* the files that have progress events
FilesReported == {trace[p].file : p \in {q \in Positions : trace[q].kind = "progress"}}

(* C7: in a successful run the progress events are those of the N files, one  *)
(* sequence each, and every file's sequence reaches an event with            *)
(* currentStep = 5 and progress = 100.                                       *)
EveryFileReachesHundred ==
    (Finished /\ outcome.success) =>
       /\ FilesReported = FileIndices
       /\ \A f \in FileIndices :
             \E p \in Positions : IsEntry(p, f, 5) /\ trace[p].payload.progress = Hundred

\* the text of the outcome's error holds this fragment
ErrorHolds(fragment) == \E k \in 1..Len(outcome.error) : outcome.error[k] = fragment

(* C8: the outcome of a failed run names the file that failed, in a field of *)
(* its own or in the error text, and the stage that failed.                  *)
ErrorNamesFileAndStage ==
    (Finished /\ ~outcome.success) =>
       /\ \/ "file" \in DOMAIN outcome /\ outcome.file = audioFiles[i + 1].name
          \/ ErrorHolds(audioFiles[i + 1].name)
       /\ \/ "stage" \in DOMAIN outcome /\ outcome.stage = trace[Len(trace)].fn
          \/ ErrorHolds(trace[Len(trace)].result.error[1])

\* the records an outcome carries
RecordsOf(value) == IF "data" \in DOMAIN value THEN value.data ELSE <<>>

(* C9: the outcome of a run that failed at file k carries no record for file *)
(* k or for a later file: none at position k or beyond, none with their ids. *)
NoResultFromFailure ==
    (Finished /\ ~outcome.success) =>
       /\ Len(RecordsOf(outcome)) <= i
       /\ \A k \in 1..Len(RecordsOf(outcome)) :
             \A f \in FileIndices :
                f >= i => RecordsOf(outcome)[k].id # "result-" \o ToString(f)

\* the second file failed after the first had been compiled into results
NoResultFromFailureWitness ==
    /\ Finished
    /\ ~outcome.success
    /\ i = 1
    /\ Len(results) = 1
    /\ IsFailure(Len(trace))

---------------------------------------------------------------------------
\* the settings object as it was when the run was called
SettingsAtCall == trace[1].settings

Running == pc \notin {"idle", "done"}

(* C10: whatever UPDATE_SETTINGS the application dispatches during a run,   *)
(* the object the run was called with is as it was at the call while the run *)
(* lasts, and every stage got what that object held at the call: its         *)
(* transcriptionModel (transcribeAudio), the object itself and its modelType *)
(* (runAnalysisModel).                                                       *)
SettingsReadOnlyDuringRun ==
    /\ Running => heap[settings] = SettingsAtCall
    /\ \A p \in Positions :
          /\ (trace[p].kind = "invoke" /\ trace[p].fn = "transcribeAudio") =>
                trace[p].args[2] = SettingsAtCall.transcriptionModel
          /\ (trace[p].kind = "invoke" /\ trace[p].fn = "runAnalysisModel") =>
                trace[p].args[2] = SettingsAtCall
          /\ (trace[p].kind = "settle" /\ trace[p].fn = "transcribeAudio"
                /\ trace[p].result.success) =>
                trace[p].result.data.model = SettingsAtCall.transcriptionModel
          /\ (trace[p].kind = "settle" /\ trace[p].fn = "runAnalysisModel"
                /\ trace[p].result.success) =>
                trace[p].result.data.model_used = SettingsAtCall.modelType

\* the run read its settings after the context's settings had changed, and went on to the end
SettingsReadOnlyDuringRunWitness ==
    /\ Finished
    /\ outcome.success
    /\ Len(audioFiles) = 2
    /\ staleRead

---------------------------------------------------------------------------
\* what the anomaly model decided, of a stage result
Verdict(result) ==
    [risk_status |-> result.data.risk_status,
     confidence |-> result.data.confidence,
     key_indicators |-> result.data.key_indicators,
     analysis_notes |-> result.data.analysis_notes]

(* C12: two calls of runAnalysisModel with the same feature vector and the   *)
(* same settings (here: for two files of one run, whose settings are those   *)
(* of the call) yield the same risk_status, confidence, key_indicators and   *)
(* analysis_notes.                                                           *)
ModelDeterministic ==
    \A f \in FileIndices :
       \A g \in FileIndices :
          (/\ Completed(f, 4)
           /\ Completed(g, 4)
           /\ Returned(f, 3).data.features = Returned(g, 3).data.features) =>
             Verdict(Returned(f, 4)) = Verdict(Returned(g, 4))

(* C14: a successful run over a single file with modelType isolation_forest  *)
(* labels that file Normal.                                                  *)
SingleFileNeverAtRisk ==
    (/\ Finished
     /\ outcome.success
     /\ Len(audioFiles) = 1
     /\ SettingsAtCall.modelType = "isolation_forest") =>
       outcome.data[1].risk_status = "Normal"

(* C11: once the application has asked to abandon the run (reset(), the     *)
(* only request the context offers), the stage in flight may end but the     *)
(* pipeline begins no further stage, of this file or of the next.            *)
NoStageAfterCancel ==
    \A p \in Positions :
       \A q \in Positions :
          (p < q /\ trace[p].kind = "request") => trace[q].kind # "invoke"

\* the last direct call was of fn
Called(fn) == applied # <<>> /\ applied[Len(applied)].fn = fn

LastCall == applied[Len(applied)]

RECURSIVE SumOver(_, _)
SumOver(f, keys) ==
    IF keys = {} THEN 0
    ELSE LET k == CHOOSE x \in keys : TRUE IN f[k] + SumOver(f, keys \ {k})

\* the keys of the feature map whose weight is present and above 0
Weighted(features, weights) ==
    {k \in DOMAIN features \cap DOMAIN weights : weights[k] > 0}

RiskScoreDegradesToZero ==
    Called("calculateRiskScore") =>
       LET features == LastCall.args[1]
           weights == LastCall.args[2]
       IN  /\ LastCall.ret.den > 0
           /\ (features = Null \/ weights = Null \/ weights = <<>>) =>
                LastCall.ret = [num |-> 0, den |-> 1]
           /\ (features # Null /\ weights # Null /\ Weighted(features, weights) = {}) =>
                LastCall.ret = [num |-> 0, den |-> 1]

\* features with weights, none of them for a key of the feature map or above 0
RiskScoreDegradesToZeroWitness ==
    /\ Called("calculateRiskScore")
    /\ LastCall.args = <<[a |-> 10, b |-> 20], [a |-> 0, c |-> 1000000]>>
    /\ LastCall.ret = [num |-> 0, den |-> 1]

\* how many of the one-vector batch a call of runAnalysisModel labelled At Risk
AtRiskCount(call) == IF call.ret.data.risk_status = "At Risk" THEN 1 ELSE 0

(* C13: for one batch of feature vectors (here of one vector) and settings   *)
(* that differ in contamination only, the run with the smaller contamination *)
(* labels no more files At Risk than the run with the larger.                *)
AtRiskMonotoneInContamination ==
    (/\ Len(applied) = 2
     /\ applied[1].fn = "runAnalysisModel"
     /\ applied[2].fn = "runAnalysisModel"
     /\ applied[1].args[1] = applied[2].args[1]
     /\ [applied[1].args[2] EXCEPT !.contamination = 0]
          = [applied[2].args[2] EXCEPT !.contamination = 0]
     /\ applied[1].args[2].contamination <= applied[2].args[2].contamination) =>
       AtRiskCount(applied[1]) <= AtRiskCount(applied[2])

\* 0.70 <= confidence <= 0.95, in millionths
InConfidenceRange(confidence) == 700000 <= confidence /\ confidence <= 950000

(* C17: every analysis result has a confidence within [0.70, 0.95]: those of *)
(* runAnalysisModel, those processAudioPipeline has compiled, those of       *)
(* generateMockResults and those of getAnalysisResults.                      *)
ConfidenceWithinRange ==
    /\ \A k \in 1..Len(results) : InConfidenceRange(results[k].confidence)
    /\ (Finished /\ outcome.success) =>
          \A k \in 1..Len(outcome.data) : InConfidenceRange(outcome.data[k].confidence)
    /\ \A f \in FileIndices :
          (Completed(f, 4) /\ Returned(f, 4).success) =>
             InConfidenceRange(Returned(f, 4).data.confidence)
    /\ Called("runAnalysisModel") =>
          \A k \in 1..Len(applied) : InConfidenceRange(applied[k].ret.data.confidence)
    /\ Called("generateMockResults") =>
          \A k \in 1..Len(LastCall.ret) : InConfidenceRange(LastCall.ret[k].confidence)
    /\ Called("getAnalysisResults") =>
          \A k \in 1..Len(LastCall.ret.results) :
             InConfidenceRange(LastCall.ret.results[k].confidence)

\* a finished run of two files, one result at each end of the draws
ConfidenceWithinRangeWitness ==
    /\ Finished
    /\ outcome.success
    /\ Len(outcome.data) = 2
    /\ outcome.data[1].confidence = 700000
    /\ outcome.data[2].confidence = 949750

FeatureNames ==
    {"hesitation_count", "pause_count", "speech_rate", "pitch_variability",
     "semantic_anomaly", "vague_word_count", "incomplete_sentence", "lost_words"}

\* all eight keys, none negative, semantic_anomaly at most 1
IsFeatureVector(fv) ==
    /\ DOMAIN fv = FeatureNames
    /\ \A k \in FeatureNames : fv[k] >= 0
    /\ fv.semantic_anomaly <= 1000000

(* C18: every feature vector extractFeatures returns, and the one in every   *)
(* analysis result (compiled by the pipeline, of generateMockResults, of     *)
(* getAnalysisResults), has all eight feature keys, each of them             *)
(* non-negative, with semantic_anomaly within [0, 1].                        *)
FeatureVectorsComplete ==
    /\ \A f \in FileIndices :
          (Completed(f, 3) /\ Returned(f, 3).success) =>
             IsFeatureVector(Returned(f, 3).data.features)
    /\ \A k \in 1..Len(results) : IsFeatureVector(results[k].features)
    /\ (Finished /\ outcome.success) =>
          \A k \in 1..Len(outcome.data) : IsFeatureVector(outcome.data[k].features)
    /\ Called("generateMockResults") =>
          \A k \in 1..Len(LastCall.ret) : IsFeatureVector(LastCall.ret[k].features)
    /\ Called("getAnalysisResults") =>
          \A k \in 1..Len(LastCall.ret.results) :
             IsFeatureVector(LastCall.ret.results[k].features)

\* extractFeatures has returned the vector of the highest draws
FeatureVectorsCompleteWitness ==
    /\ Completed(0, 3)
    /\ Returned(0, 3).success
    /\ Returned(0, 3).data.features =
         [hesitation_count |-> 9, pause_count |-> 7, speech_rate |-> 3998000,
          pitch_variability |-> 1099700000, semantic_anomaly |-> 299800,
          vague_word_count |-> 2, incomplete_sentence |-> 1, lost_words |-> 4]

\* 0 <= progress <= 100, of an exact fraction
InPercent(progress) ==
    /\ progress.den > 0
    /\ 0 <= progress.num
    /\ progress.num <= 100 * progress.den

\* every payload passed to updateProgress so far, in order
PayloadsPassed ==
    LET events == SelectSeq(trace, LAMBDA e : e.kind = "progress")
    IN  [k \in 1..Len(events) |-> events[k].payload]

\* currentStep in 1..5, totalSteps 5, a step name and progress within 0..100
IsProgressEvent(e) ==
    /\ {"currentStep", "totalSteps", "stepName", "progress"} \subseteq DOMAIN e
    /\ e.currentStep \in 1..5
    /\ e.totalSteps = 5
    /\ e.stepName # ""
    /\ InPercent(e.progress)

ProgressPayloads ==
    {StepStart(s) : s \in 1..4} \cup {StepDone}
       \cup {StepCompiled(idx, audioFiles) : idx \in FileIndices}

(* C20: in every state, applying a progress payload through updateProgress   *)
(* (UPDATE_PROCESSING) a second time in a row changes nothing, and applying  *)
(* it changes nothing but the processing record; so the last payload the     *)
(* pipeline passed can be passed again without effect.                       *)
UpdateProcessingIdempotent ==
    /\ \A payload \in ProgressPayloads :
          LET once == updateProcessing(state, payload)
              twice == updateProcessing(once, payload)
          IN  /\ twice = once
              /\ [once EXCEPT !.processing = state.processing] = state
    /\ PayloadsPassed # <<>> =>
          updateProcessing(state, PayloadsPassed[Len(PayloadsPassed)]) = state

\* step 2 entered: {progress: 100} moves the record once, and only once
UpdateProcessingIdempotentWitness ==
    /\ pc = "transcribe"
    /\ state.processing.progress = [num |-> 0, den |-> 1]
    /\ updateProcessing(state, StepDone).processing.progress = [num |-> 100, den |-> 1]
    /\ updateProcessing(updateProcessing(state, StepDone), StepDone).processing
         = [isProcessing |-> FALSE, currentStep |-> 2, totalSteps |-> 5,
            stepName |-> "Transcribing Audio", progress |-> [num |-> 100, den |-> 1]]

\* exactly the eight fields, and one of the two labels
IsAnalysisResult(r) ==
    /\ DOMAIN r = {"id", "file_name", "risk_status", "confidence", "key_indicators",
                   "features", "transcription", "analysis_notes"}
    /\ r.risk_status \in {"Normal", "At Risk"}

(* C21: every analysis result record handed to the caller (compiled by       *)
(* processAudioPipeline, built by generateMockResults or by                  *)
(* getAnalysisResults) has exactly the fields id, file_name, risk_status,    *)
(* confidence, key_indicators, features, transcription and analysis_notes,   *)
(* and its risk_status is Normal or At Risk.                                 *)
ResultRecordsWellFormed ==
    /\ \A k \in 1..Len(results) : IsAnalysisResult(results[k])
    /\ (Finished /\ outcome.success) =>
          \A k \in 1..Len(outcome.data) : IsAnalysisResult(outcome.data[k])
    /\ Called("generateMockResults") =>
          \A k \in 1..Len(LastCall.ret) : IsAnalysisResult(LastCall.ret[k])
    /\ Called("getAnalysisResults") =>
          \A k \in 1..Len(LastCall.ret.results) : IsAnalysisResult(LastCall.ret.results[k])

\* a finished run that returned one record of each label
ResultRecordsWellFormedWitness ==
    /\ Finished
    /\ outcome.success
    /\ Len(outcome.data) = 2
    /\ outcome.data[1].risk_status = "At Risk"
    /\ outcome.data[2].risk_status = "Normal"

\* the whitespace-delimited non-empty tokens of a string: where each begins
TokenStarts(text) ==
    {k \in 1..Len(text) :
        text[k] \notin Whitespace /\ (k = 1 \/ text[k - 1] \in Whitespace)}

(* C22: calculateSpeechRate(text, d) is 0 when text is empty or d <= 0, and  *)
(* otherwise rate * d = 60 * (number of whitespace-delimited non-empty       *)
(* tokens of text); a text of whitespace only has rate 0.                    *)
SpeechRateIsWordsPerMinute ==
    (Called("calculateSpeechRate") /\ LastCall.args[1] # NoText) =>
       LET text == LastCall.args[1]
           d == LastCall.args[2]
           rate == LastCall.ret
       IN  /\ rate.den > 0
           /\ (text = <<>> \/ d <= 0) => rate = [num |-> 0, den |-> 1]
           /\ (text # <<>> /\ d > 0) =>
                rate.num * d = 60 * Cardinality(TokenStarts(text)) * rate.den
           /\ (\A k \in 1..Len(text) : text[k] = " ") => rate = [num |-> 0, den |-> 1]

\* two words between spaces in 90 seconds: 80 / 60 words per minute
SpeechRateIsWordsPerMinuteWitness ==
    /\ Called("calculateSpeechRate")
    /\ LastCall.args = <<<<" ", "a", " ", "b", "a">>, 90>>
    /\ LastCall.ret = [num |-> 4, den |-> 3]

\* the token of text that begins at k: up to the next whitespace
TokenAt(text, k) ==
    LET ends == {e \in k..Len(text) : e = Len(text) \/ text[e + 1] \in Whitespace}
        last == CHOOSE e \in ends : \A x \in ends : e <= x
    IN  SubSeq(text, k, last)

UpperCase == [u |-> "U", m |-> "M", h |-> "H", s |-> "S", o |-> "O"]

\* token is word, whatever the case of its letters
SameIgnoringCase(token, word) ==
    /\ Len(token) = Len(word)
    /\ \A k \in 1..Len(word) :
          \/ token[k] = word[k]
          \/ word[k] \in DOMAIN UpperCase /\ token[k] = UpperCase[word[k]]

\* text with every letter the other way round
SwapCase(text) ==
    [k \in 1..Len(text) |->
        IF text[k] \in DOMAIN UpperCase THEN UpperCase[text[k]]
        ELSE IF text[k] \in DOMAIN LowerCase THEN LowerCase[text[k]]
        ELSE text[k]]

(* C24: countHesitations(text) is the number of whitespace-delimited tokens  *)
(* of text that are, ignoring case, exactly one of uh, um, er, ah, hmm, ehm; *)
(* the text in the other letter case has the same count.                     *)
HesitationsAreLexiconTokens ==
    (Called("countHesitations") /\ LastCall.args[1] # NoText) =>
       LET text == LastCall.args[1]
           lexicon == {<<"u", "h">>, <<"u", "m">>, <<"e", "r">>, <<"a", "h">>,
                       <<"h", "m", "m">>, <<"e", "h", "m">>}
           hits == {k \in TokenStarts(text) :
                      \E word \in lexicon : SameIgnoringCase(TokenAt(text, k), word)}
       IN  /\ LastCall.ret = Cardinality(hits)
           /\ countHesitations(SwapCase(text)) = LastCall.ret

\* Um and uh count, each once
HesitationsAreLexiconTokensWitness ==
    /\ Called("countHesitations")
    /\ LastCall.args[1] = <<"U", "m", " ", "u", "h">>
    /\ LastCall.ret = 2

PauseCharacters == {".", ",", "-"}

\* where a maximal run of pause characters, of any mix, of length two or more begins
MixedRunStarts(text) ==
    {k \in 1..Len(text) :
        /\ text[k] \in PauseCharacters
        /\ k = 1 \/ text[k - 1] \notin PauseCharacters
        /\ k < Len(text)
        /\ text[k + 1] \in PauseCharacters}

\* where a maximal run of one repeated pause character of length two or more begins
SameRunStarts(text) ==
    {k \in 1..Len(text) :
        /\ text[k] \in PauseCharacters
        /\ k = 1 \/ text[k - 1] # text[k]
        /\ k < Len(text)
        /\ text[k + 1] = text[k]}

(* C25: countPauses(text) is the number of maximal runs of two or more       *)
(* consecutive characters drawn from periods, commas and dashes: each such   *)
(* run counts once whatever its length, a single character counts as none.   *)
PausesAreMixedRuns ==
    (Called("countPauses") /\ LastCall.args[1] # NoText) =>
       LastCall.ret = Cardinality(MixedRunStarts(LastCall.args[1]))

(* C25, as the code has it: countPauses(text) is the number of maximal runs  *)
(* of two or more of the same character, a period, a comma or a dash: each   *)
(* such run counts once whatever its length, and a single character, or two  *)
(* different ones next to each other, count as none.                         *)
PausesAreSameCharacterRuns ==
    (Called("countPauses") /\ LastCall.args[1] # NoText) =>
       LastCall.ret = Cardinality(SameRunStarts(LastCall.args[1]))

\* an ellipsis of three and a pair of dashes: two pauses
PausesAreSameCharacterRunsWitness ==
    /\ Called("countPauses")
    /\ LastCall.args[1] = <<".", ".", ".", "-", "-">>
    /\ LastCall.ret = 2

Terminators == {".", "!", "?"}

\* the sentences of a text: the maximal stretches without '.', '!' or '?' that
\* are not of whitespace only, as pairs of their first and last positions
SentencesOf(text) ==
    {span \in (1..Len(text)) \X (1..Len(text)) :
        /\ span[1] <= span[2]
        /\ \A k \in span[1]..span[2] : text[k] \notin Terminators
        /\ span[1] = 1 \/ text[span[1] - 1] \in Terminators
        /\ span[2] = Len(text) \/ text[span[2] + 1] \in Terminators
        /\ \E k \in span[1]..span[2] : text[k] \notin Whitespace}

\* the last whitespace-delimited token of a sentence that has one
LastToken(sentence) ==
    LET starts == TokenStarts(sentence)
        last == CHOOSE k \in starts : \A x \in starts : x <= k
    IN  TokenAt(sentence, last)

(* C23: detectIncompleteSentences(text) is the number of sentences of text   *)
(* (split on '.', '!' or '?', the empty and whitespace-only ones dropped)    *)
(* that have fewer than 3 non-empty whitespace-delimited tokens or whose     *)
(* last word, ignoring case, is one of and, but, or, so, because, if, when.  *)
IncompleteSentencesCounted ==
    (Called("detectIncompleteSentences") /\ LastCall.args[1] # NoText) =>
       LET text == LastCall.args[1]
           incomplete ==
             {span \in SentencesOf(text) :
                LET sentence == SubSeq(text, span[1], span[2]) IN
                \/ Cardinality(TokenStarts(sentence)) < 3
                \/ \E word \in {<<"a", "n", "d">>, <<"b", "u", "t">>, <<"o", "r">>,
                                <<"s", "o">>, <<"b", "e", "c", "a", "u", "s", "e">>,
                                <<"i", "f">>, <<"w", "h", "e", "n">>} :
                      SameIgnoringCase(LastToken(sentence), word)}
       IN  LastCall.ret = Cardinality(incomplete)

LinguisticFunctions ==
    {"calculateSpeechRate", "countHesitations", "countPauses", "countVagueWords",
     "detectIncompleteSentences", "countLostWords", "calculateSemanticAnomaly"}

(* C26: each of calculateSpeechRate, countHesitations, countPauses,          *)
(* countVagueWords, detectIncompleteSentences, countLostWords and            *)
(* calculateSemanticAnomaly returns 0 when the transcription is null or      *)
(* empty.                                                                    *)
ZeroForNoTranscription ==
    (/\ applied # <<>>
     /\ LastCall.fn \in LinguisticFunctions
     /\ LastCall.args[1] \in {<<"null">>, <<>>}) =>
       IF LastCall.fn = "calculateSpeechRate"
       THEN LastCall.ret = [num |-> 0, den |-> 1]
       ELSE LastCall.ret = 0

(* C27: the quality score of checkAudioQuality is 0.95 less 0.2 for each     *)
(* issue found, kept within [0, 1]; the issues are distinct and among        *)
(* low_snr, clipping and distortion; a call that found fewer issues has a    *)
(* strictly higher score.                                                    *)
QualityScorePenalised ==
    Called("checkAudioQuality") =>
       LET issues == LastCall.ret.data.issues
           score == LastCall.ret.data.qualityScore
           penalised == 950000 - 200000 * Len(issues)
       IN  /\ score = (IF penalised < 0 THEN 0 ELSE IF penalised > 1000000 THEN 1000000
                       ELSE penalised)
           /\ 0 <= score /\ score <= 1000000
           /\ \A k \in 1..Len(issues) : issues[k] \in {"low_snr", "clipping", "distortion"}
           /\ \A j \in 1..Len(issues) : \A k \in 1..Len(issues) :
                 j # k => issues[j] # issues[k]
           /\ \A rnd \in QualityDraws :
                 LET other == checkAudioQuality(LastCall.args[1], rnd).data IN
                 Len(other.issues) < Len(issues) => other.qualityScore > score

\* all three issues found: 0.35
QualityScorePenalisedWitness ==
    /\ Called("checkAudioQuality")
    /\ LastCall.ret.data.issues = <<"low_snr", "clipping", "distortion">>
    /\ LastCall.ret.data.qualityScore = 350000

StepNames ==
    <<"Preprocessing Audio", "Transcribing Audio", "Extracting Features",
      "Training Model", "Generating Results">>

(* C28: in every state reached from the initial one by startProcessing and   *)
(* the timer callbacks of the simulation, the processing record has          *)
(* totalSteps 5 and a progress that is a multiple of 5 within 0..100, and    *)
(* while isProcessing is true its currentStep is within 1..5 and its         *)
(* stepName is the name of that step.                                        *)
ProcessingRecordWellFormed ==
    LET p == state.processing IN
    /\ p.totalSteps = 5
    /\ \E j \in 0..20 : p.progress = [num |-> 5 * j, den |-> 1]
    /\ p.isProcessing => /\ p.currentStep \in 1..5
                         /\ p.stepName = StepNames[p.currentStep]

\* a run in its third step, eleven ticks of the interval made
ProcessingRecordWellFormedWitness ==
    /\ Len(runs) = 1
    /\ runs[1].timer = "interval"
    /\ state.processing.isProcessing
    /\ state.processing.currentStep = 3
    /\ state.processing.stepName = "Extracting Features"
    /\ state.processing.progress = [num |-> 55, den |-> 1]

(* C29: a simulated run begun by startProcessing finishes in the end, its    *)
(* timers firing: a state is reached where results is not null and           *)
(* isProcessing is false; and isProcessing is true from START_PROCESSING     *)
(* until the run's SET_RESULTS.                                              *)
SimulatedRunFinishes ==
    /\ (runs # <<>>) ~> (state.results # <<[null |-> TRUE]>> /\ ~state.processing.isProcessing)
    /\ [](\A k \in DOMAIN runs :
             runs[k].timer # "none" => state.processing.isProcessing)

\* the run of one uploaded file is over
SimulatedRunFinishesWitness ==
    /\ runs # <<>>
    /\ runs[1].timer = "none"
    /\ Len(runs[1].closure.audioFiles) = 1
    /\ state.results # <<[null |-> TRUE]>>
    /\ Len(state.results) = 1
    /\ ~state.processing.isProcessing

(* C30: during one simulated run currentStep never decreases and goes        *)
(* through 1, 2, 3, 4, 5 in that order; within a step progress begins at 0   *)
(* and rises by 5 at a time to exactly 100 before the next step begins; and  *)
(* results are set only after step 5 has reached progress 100.               *)
SimulationInOrder ==
    [][LET p == state.processing
           q == state'.processing
       IN  /\ \/ /\ q.currentStep = p.currentStep
                 /\ q.progress = p.progress
              \/ /\ q.currentStep = p.currentStep
                 /\ q.progress = [num |-> p.progress.num + 5, den |-> 1]
                 /\ q.progress.num <= 100
              \/ /\ q.currentStep = p.currentStep + 1
                 /\ q.currentStep \in 1..5
                 /\ q.progress = [num |-> 0, den |-> 1]
                 /\ p.currentStep = 0 \/ p.progress = [num |-> 100, den |-> 1]
           /\ state'.results # state.results =>
                /\ p.currentStep = 5
                /\ p.progress = [num |-> 100, den |-> 1]]_vars

\* the results of the five sample files set, step 5 at 100
SimulationInOrderWitness ==
    /\ runs # <<>>
    /\ runs[1].timer = "none"
    /\ Len(runs[1].closure.audioFiles) = 0
    /\ Len(state.results) = 5
    /\ state.processing.currentStep = 5
    /\ state.processing.progress = [num |-> 100, den |-> 1]

AtMostOneRunInFlight ==
    /\ Cardinality({k \in DOMAIN runs : runs[k].timer # "none"}) <= 1
    /\ (/\ state.datasetPath # "" \/ Len(state.audioFiles) > 0
        /\ ~state.processing.isProcessing
        /\ state.results = <<[null |-> TRUE]>>) =>
          \A k \in DOMAIN runs : runs[k].timer = "none"

\* a run in its second step, files and a dataset path present: no button
AtMostOneRunInFlightWitness ==
    /\ Len(runs) = 1
    /\ runs[1].timer = "timeout"
    /\ runs[1].currentStep = 1
    /\ state.datasetPath = "/data"
    /\ Len(state.audioFiles) = 2
    /\ state.processing.isProcessing
    /\ state.results = <<[null |-> TRUE]>>

(* C33: the frame of the reducer's actions.  SET_RESULTS changes results and *)
(* processing.isProcessing (to false) only, error staying as it was;         *)
(* SET_ERROR changes error and processing.isProcessing (to false) only,      *)
(* results staying as they were; START_PROCESSING clears error and leaves    *)
(* results, settings, audioFiles and datasetPath alone; an unknown action    *)
(* leaves the whole state as it was.                                         *)
ReducerFrames ==
    Called("analysisReducer") =>
       LET st == LastCall.args[1]
           action == LastCall.args[2]
           new == LastCall.ret
       IN  /\ action.type = "SET_RESULTS" =>
                /\ new = [st EXCEPT !.results = action.payload,
                                    !.processing.isProcessing = FALSE]
                /\ new.error = st.error
           /\ action.type = "SET_ERROR" =>
                /\ new = [st EXCEPT !.error = action.payload,
                                    !.processing.isProcessing = FALSE]
                /\ new.results = st.results
           /\ action.type = "START_PROCESSING" =>
                /\ new.error = "undefined"
                /\ new.results = st.results
                /\ new.settings = st.settings
                /\ new.audioFiles = st.audioFiles
                /\ new.datasetPath = st.datasetPath
           /\ action.type = "SET_NOTHING" => new = st

\* SET_ERROR dispatched on a state that has results: both are there afterwards
ReducerFramesWitness ==
    /\ Called("analysisReducer")
    /\ LastCall.args[2].type = "SET_ERROR"
    /\ LastCall.args[1].results # <<[null |-> TRUE]>>
    /\ state.results # <<[null |-> TRUE]>>
    /\ state.error = "corrupt audio"
    /\ ~state.processing.isProcessing

(* C34: processAudioPipeline never rejects or throws: whatever it is given,  *)
(* a stage reporting failure, a null file list or a throwing updateProgress  *)
(* among it, the call ends in {success: true, data} or in {success: false,   *)
(* error} with an error that begins "Error in audio processing pipeline: ".  *)
PipelineNeverRejects ==
    pc = "done" =>
       /\ "success" \in DOMAIN outcome
       /\ IF outcome.success
          THEN DOMAIN outcome = {"success", "data"}
          ELSE /\ DOMAIN outcome = {"success", "error"}
               /\ outcome.error[1] = "Error in audio processing pipeline: "

LabelConsistent(r) ==
    IF r.risk_status = "Normal"
    THEN /\ r.key_indicators = <<"Normal Speech Pattern">>
         /\ r.analysis_notes = <<"Speech patterns within normal range",
                                 "No significant cognitive indicators detected">>
    ELSE /\ r.risk_status = "At Risk"
         /\ r.key_indicators \in {<<"Hesitation">>,
                                   <<"Hesitation", "Semantic Anomaly">>,
                                   <<"Hesitation", "Semantic Anomaly", "Slow Speech Rate">>}
         /\ r.analysis_notes = <<"Higher than normal hesitation frequency detected",
                                 "Semantic coherence is below average",
                                 "Speech patterns show potential cognitive indicators">>

(* C35: in every result produced the label, the indicators and the notes     *)
(* agree: a Normal result has the indicators ["Normal Speech Pattern"] and   *)
(* the two normal-range notes; an At Risk result has one to three            *)
(* indicators, a prefix of Hesitation, Semantic Anomaly, Slow Speech Rate    *)
(* without "Normal Speech Pattern", and the three at-risk notes.             *)
LabelsIndicatorsNotesAgree ==
    /\ (Called("runAnalysisModel") /\ LastCall.ret.success) =>
          LabelConsistent(LastCall.ret.data)
    /\ Called("generateMockResults") =>
          \A k \in 1..Len(LastCall.ret) : LabelConsistent(LastCall.ret[k])
    /\ Called("getAnalysisResults") =>
          \A k \in 1..Len(LastCall.ret.results) : LabelConsistent(LastCall.ret.results[k])
    /\ (pc = "done" /\ outcome.success) =>
          \A k \in 1..Len(outcome.data) : LabelConsistent(outcome.data[k])

\* the model's answer At Risk on the single indicator Hesitation
LabelsIndicatorsNotesAgreeWitness ==
    /\ Called("runAnalysisModel")
    /\ LastCall.ret.data.risk_status = "At Risk"
    /\ LastCall.ret.data.key_indicators = <<"Hesitation">>
    /\ Len(LastCall.ret.data.analysis_notes) = 3

ResultIds == <<"result-0", "result-1", "result-2", "result-3", "result-4">>

SampleNames ==
    <<"sample1.wav", "sample2.wav", "sample3.wav", "sample4.wav", "sample5.wav">>

PanelMatchesContext == heap[state.settings] = ui.settings

\* four changes made one after another, all of them in the context
PanelMatchesContextWitness ==
    /\ heap[state.settings].modelType = "kmeans"
    /\ heap[state.settings].contamination = 300000
    /\ heap[state.settings].transcriptionModel = "whisper"
    /\ heap[state.settings].featureWeights.hesitation_count = 500000
    /\ heap[state.settings].featureWeights.lost_words = 2000000
    /\ ui.settings.featureWeights.lost_words = 2000000
    /\ ui.settings.modelType = "kmeans"

(* C38: in the audio uploader, after any sequence of play/pause toggles,     *)
(* removals of files and ends of playback, at most one uploaded file is      *)
(* playing, and currentPlayingIndex, when it is not null, is the index in    *)
(* the list as it is now of the file that is playing.                        *)
OnePlayingAtItsIndex ==
    /\ Cardinality({k \in 1..Len(ui.files) : ui.files[k].id \in ui.playing}) <= 1
    /\ ui.currentPlayingIndex # -1 =>
          /\ ui.currentPlayingIndex < Len(ui.files)
          /\ ui.files[ui.currentPlayingIndex + 1].id \in ui.playing

====
